---- MODULE Spec2Model ----
(***************************************************************************)
(* A model of the Spotify analyzer (src/appv2.py, src/app.py): the track   *)
(* sanitizer, the aggregate analyses (genres, popularity, decades), the    *)
(* merge of the user's library and playlists, and the two-phase search     *)
(* that turns suggested songs into a playlist.                             *)
(*                                                                         *)
(* Python values are tagged records, so that values of different Python    *)
(* types can sit in one collection:                                        *)
(*   None            [t |-> "none"]                                        *)
(*   bool            [t |-> "bool", b |-> TRUE]                            *)
(*   int             [t |-> "int",  n |-> 50]                              *)
(*   str             [t |-> "str",  s |-> <<"1","9","9","4">>]  (chars)    *)
(*   list            [t |-> "list", l |-> <<v1, v2>>]                      *)
(*   dict            [t |-> "dict", d |-> [id |-> v1, name |-> v2]]        *)
(* A dict's keys are the DOMAIN of its d field; a missing key is missing   *)
(* from the DOMAIN.                                                        *)
(***************************************************************************)
EXTENDS Integers, Sequences, FiniteSets, TLC

VARIABLES
    pc,              \* position of the operation under analysis
    tracks,          \* the raw list handed to sanitize_track_list
    clean_tracks,    \* sanitize_track_list: the list returned
    invalid_count,   \* sanitize_track_list: items dropped
    patched_count,   \* sanitize_track_list: items patched
    resanitized,     \* result of sanitize_track_list applied to its own output
    track_idx,       \* analyze_genres: index of the track of the outer loop
    artist_idx,      \* analyze_genres: index of the artist of the inner loop
    genre_counter,   \* analyze_genres: Counter of genres
    artist_counter,  \* analyze_genres: Counter of artist names
    genre_by_artist, \* analyze_genres: genre -> set of artist names
    processed_artists, \* analyze_genres: artist ids already looked up
    artist_calls,    \* the artist ids passed to sp.artist, in call order
    popularity_stats, \* result of analyze_popularity
    decade_dist,     \* result of get_decade_distribution
    report_data,     \* result of run_analysis_on_tracklist
    all_tracks_dict, \* get_all_user_tracks_heavy: id -> track, in insertion order
    source_lists,    \* the track lists the fetchers returned, in merge order
    playlists,       \* get_all_user_tracks_heavy: number of playlists found
    playlist_idx,    \* get_all_user_tracks_heavy: index of the playlist scanned
    merged,          \* the list get_all_user_tracks_heavy returns
    num_songs,       \* create_spotify_playlist: len(songs_to_search)
    song_idx,        \* create_spotify_playlist: index of the suggestion of the loop
    track_uris,      \* create_spotify_playlist: the URIs resolved
    songs_found_count, \* create_spotify_playlist: the counter of resolved tracks
    not_found_songs, \* create_spotify_playlist: the suggestions not found
    search_calls,    \* number of sp.search calls issued
    last_search,     \* the last sp.search call: suggestion, phase, outcome
    playlists_created, \* number of sp.user_playlist_create calls
    added_items,     \* what sp.playlist_add_items received, None before
    model_ok,        \* GeminiReportAnalyzer: whether self.model is set
    session_state,   \* st.session_state: key -> value
    gemini_requests, \* the requests sent to the generative service, with the responses
    shown,           \* the st.error / st.code output of the two generate functions
    top_items,       \* what current_user_top_tracks answers when it answers
    api_calls,       \* the current_user_top_tracks calls made: "ok" or "raise" each
    top_tracks,      \* what get_top_tracks returned, None before
    pg_kind,         \* the paging function that runs: "saved", "playlist" or "playlists"
    pg_script,       \* the pages the provider serves, each with its next-page marker
    pg_idx,          \* the page `results` holds (0 before the first call)
    pg_acc,          \* the list the loop extends: `tracks` / `playlists`
    pg_calls,        \* number of sp.next calls
    pg_result        \* what the paging function returned, None before

\* ------------------------------------------------------------------ bounds
MaxTracks == 2
MaxGenreTracks == 3
MaxStatTracks == 3
MaxRunTracks == 2
MaxSourceItems == 2
MaxPlaylists == 2
MaxSongs == 12
MaxSuggested == 2
MaxTopItems == 2
MaxPages == 3

\* ------------------------------------------------------ program constants
PLAYLIST_TARGET_SIZE == 10
MAX_RETRIES == 3

\* ------------------------------------------------------------------ values
NoneV == [t |-> "none"]
BoolV(b) == [t |-> "bool", b |-> b]
IntV(n) == [t |-> "int", n |-> n]
StrV(s) == [t |-> "str", s |-> s]
ListV(l) == [t |-> "list", l |-> l]
DictV(d) == [t |-> "dict", d |-> d]
EmptyDict == [t |-> "dict", d |-> [k \in {} |-> NoneV]]

\* isinstance(v, dict), isinstance(v, list)
IsDict(v) == v.t = "dict"
IsList(v) == v.t = "list"

\* Python truthiness: bool(v)
Truthy(v) ==
    CASE v.t = "none" -> FALSE
      [] v.t = "bool" -> v.b
      [] v.t = "int"  -> v.n # 0
      [] v.t = "str"  -> Len(v.s) > 0
      [] v.t = "list" -> Len(v.l) > 0
      [] v.t = "dict" -> DOMAIN v.d # {}

\* key in d
HasKey(v, k) == k \in DOMAIN v.d

\* d.get(k): the value, or None when the key is missing
Get(v, k) == IF k \in DOMAIN v.d THEN v.d[k] ELSE NoneV

\* d[k] = x
SetKey(v, k, x) ==
    DictV([key \in (DOMAIN v.d) \cup {k} |-> IF key = k THEN x ELSE v.d[key]])

\* safe_get(data, *keys, default): walks nested dicts
RECURSIVE safe_get(_, _, _)
safe_get(data, keys, default) ==
    IF keys = <<>> THEN data
    ELSE IF IsDict(data)
         THEN safe_get(IF HasKey(data, Head(keys)) THEN data.d[Head(keys)] ELSE default,
                       Tail(keys), default)
         ELSE default

\* --------------------------------------------------------------- sanitizer
\* The placeholder values of sanitize_track_list (written without diacritics).
UnnamedTrack == StrV(<<"I","s","i","m","s","i","z">>)
UnknownArtist == DictV([id |-> NoneV, name |-> StrV(<<"B","i","l","i","n","m","e","y","e","n">>)])
UnknownAlbum == DictV([name |-> StrV(<<"B","i","l","i","n","m","e","y","e","n">>),
                      release_date |-> StrV(<<"1","9","0","0">>)])

\* Step 1 of the loop body: the track object of a raw item, None when there is none.
ExtractTrackObj(item) ==
    IF IsDict(item)
    THEN IF HasKey(item, "track") /\ IsDict(Get(item, "track"))
         THEN item.d["track"]
         ELSE IF HasKey(item, "id") THEN item ELSE NoneV
    ELSE NoneV

\* Mutant: a track object without a name is dropped as well.
IsInvalid_NamelessToo(item) ==
    LET track_obj == ExtractTrackObj(item)
    IN  IF Truthy(track_obj)
        THEN ~Truthy(Get(track_obj, "id")) \/ ~Truthy(Get(track_obj, "name"))
        ELSE TRUE
\* Steps 2 and 3: an item is dropped when it has no track object or no truthy id.
IsInvalid(item) ==
    LET track_obj == ExtractTrackObj(item)
    IN  ~Truthy(track_obj) \/ ~Truthy(Get(track_obj, "id"))

NeedsName(t) == ~Truthy(Get(t, "name"))
\* Mutant: the isinstance check on artists is left out.
NeedsArtists_NoListCheck(t) == ~Truthy(Get(t, "artists"))
NeedsArtists(t) == ~Truthy(Get(t, "artists")) \/ ~IsList(Get(t, "artists"))
NeedsAlbum(t) == ~Truthy(Get(t, "album")) \/ ~IsDict(Get(t, "album"))
\* Mutant: a falsy popularity is defaulted as a missing one is.
NeedsPopularity_Falsy(t) == ~Truthy(Get(t, "popularity"))
NeedsPopularity(t) == ~HasKey(t, "popularity")

PatchName(t) == IF NeedsName(t) THEN SetKey(t, "name", UnnamedTrack) ELSE t
PatchArtists(t) == IF NeedsArtists(t) THEN SetKey(t, "artists", ListV(<<UnknownArtist>>)) ELSE t
PatchAlbum(t) == IF NeedsAlbum(t) THEN SetKey(t, "album", UnknownAlbum) ELSE t
PatchPopularity(t) == IF NeedsPopularity(t) THEN SetKey(t, "popularity", IntV(0)) ELSE t

\* Step 4: the four patches, in the order of the code.
PatchTrack(t) == PatchPopularity(PatchAlbum(PatchArtists(PatchName(t))))
\* Mutant: only a defaulted name sets is_patched.
IsPatched_NameOnly(t) == NeedsName(t)
IsPatched(t) == NeedsName(t) \/ NeedsArtists(t) \/ NeedsAlbum(t) \/ NeedsPopularity(t)

\* Mutant: a dropped item is not counted.
Drop_Uncounted(acc) == acc
\* invalid_count += 1; continue
Drop(acc) == [acc EXCEPT !.invalid_count = @ + 1]

\* Mutant: a track whose id was emitted before is not emitted again.
Emit_OncePerId(acc, track_obj) ==
    IF \E i \in 1..Len(acc.clean_tracks) : acc.clean_tracks[i].d["id"] = track_obj.d["id"]
    THEN acc
    ELSE [acc EXCEPT !.clean_tracks = Append(@, PatchTrack(track_obj))]
\* The rest of the loop body for a track object with an id: the patches, the
\* patched counter, clean_tracks.append(track_obj).
Emit(acc, track_obj) ==
    [clean_tracks |-> Append(acc.clean_tracks, PatchTrack(track_obj)),
     invalid_count |-> acc.invalid_count,
     patched_count |-> acc.patched_count + (IF IsPatched(track_obj) THEN 1 ELSE 0)]

\* The for loop of sanitize_track_list over items, from accumulator acc.
RECURSIVE SanitizeLoop(_, _)
SanitizeLoop(items, acc) ==
    IF items = <<>> THEN acc
    ELSE LET item == Head(items)
             track_obj == ExtractTrackObj(item)
         IN  IF IsInvalid(item)
             THEN SanitizeLoop(Tail(items), Drop(acc))
             ELSE SanitizeLoop(Tail(items), Emit(acc, track_obj))

\* sanitize_track_list(tracks): the list returned and the two counters.
sanitize_track_list(items) ==
    IF items = <<>>
    THEN [clean_tracks |-> <<>>, invalid_count |-> 0, patched_count |-> 0]
    ELSE SanitizeLoop(items, [clean_tracks |-> <<>>, invalid_count |-> 0, patched_count |-> 0])

\* ---------------------------------------------------------------- Counter
\* collections.Counter: a function from the keys counted to their counts.
EmptyCounter == [k \in {} |-> 0]
Inc(counter, k) ==
    IF k \in DOMAIN counter THEN [counter EXCEPT ![k] = @ + 1] ELSE counter @@ (k :> 1)
RECURSIVE SumOver(_, _)
SumOver(f, S) ==
    IF S = {} THEN 0 ELSE LET k == CHOOSE x \in S : TRUE IN f[k] + SumOver(f, S \ {k})
Total(counter) == SumOver(counter, DOMAIN counter)

\* ------------------------------------------------------- decade analysis
Digits == {"0","1","2","3","4","5","6","7","8","9"}
DigitVal(c) ==
    CASE c = "0" -> 0 [] c = "1" -> 1 [] c = "2" -> 2 [] c = "3" -> 3 [] c = "4" -> 4
      [] c = "5" -> 5 [] c = "6" -> 6 [] c = "7" -> 7 [] c = "8" -> 8 [] c = "9" -> 9

\* str.strip() for the blank
RECURSIVE LStrip(_)
LStrip(s) == IF s # <<>> /\ Head(s) = " " THEN LStrip(Tail(s)) ELSE s
RECURSIVE RStrip(_)
RStrip(s) == IF s # <<>> /\ s[Len(s)] = " " THEN RStrip(SubSeq(s, 1, Len(s) - 1)) ELSE s

\* The digits of an int literal: digits, single underscores between digits allowed.
IsDigitString(s) ==
    /\ s # <<>>
    /\ \A i \in 1..Len(s) : s[i] \in Digits \cup {"_"}
    /\ s[1] \in Digits /\ s[Len(s)] \in Digits
    /\ \A i \in 1..Len(s) - 1 : ~(s[i] = "_" /\ s[i + 1] = "_")
RECURSIVE DigitsValue(_, _)
DigitsValue(s, acc) ==
    IF s = <<>> THEN acc
    ELSE DigitsValue(Tail(s), IF Head(s) = "_" THEN acc ELSE 10 * acc + DigitVal(Head(s)))

\* int(s) for a str s: [ok |-> FALSE] is ValueError. Blanks around the literal
\* are stripped, a sign may lead it.
ParseInt(s) ==
    LET body == RStrip(LStrip(s))
        signed == body # <<>> /\ Head(body) \in {"+", "-"}
        digits == IF signed THEN Tail(body) ELSE body
    IN  IF IsDigitString(digits)
        THEN [ok |-> TRUE,
              n |-> IF signed /\ Head(body) = "-" THEN 0 - DigitsValue(digits, 0)
                    ELSE DigitsValue(digits, 0)]
        ELSE [ok |-> FALSE, n |-> 0]

\* f"{decade}'ler": the decade number followed by the suffix
DecadeLabel(decade) == <<decade, "'ler">>

\* The year of a track as get_decade_distribution reads it: release_date[:4]
\* parsed, when release_date is a non-empty str of at least 4 characters.
ReleaseDate(track) == safe_get(track, <<"album", "release_date">>, StrV(<<>>))
\* Mutant: the length check is left out.
HasUsableDate_NoLengthCheck(track) ==
    LET release_date == ReleaseDate(track)
    IN  release_date.t = "str" /\ Truthy(release_date)
HasUsableDate(track) ==
    LET release_date == ReleaseDate(track)
    IN  /\ release_date.t = "str"
        /\ Truthy(release_date)
        /\ Len(release_date.s) >= 4
\* s[:4]
Prefix4(s) == SubSeq(s, 1, IF Len(s) < 4 THEN Len(s) ELSE 4)
\* Mutant: the year is rounded to the nearest decade.
DecadeOf_Rounded(track) ==
    LET year == ParseInt(Prefix4(ReleaseDate(track).s)).n
    IN  ((year + 5) \div 10) * 10
\* year = int(release_date[:4]); decade = (year // 10) * 10
DecadeOf(track) ==
    LET year == ParseInt(Prefix4(ReleaseDate(track).s)).n
    IN  (year \div 10) * 10

\* One iteration of the loop of get_decade_distribution.
DecadeStep(decades, track) ==
    IF HasUsableDate(track) /\ ParseInt(Prefix4(ReleaseDate(track).s)).ok
    THEN Inc(decades, DecadeLabel(DecadeOf(track)))
    ELSE decades

RECURSIVE DecadeLoop(_, _)
DecadeLoop(ts, decades) ==
    IF ts = <<>> THEN decades ELSE DecadeLoop(Tail(ts), DecadeStep(decades, Head(ts)))

get_decade_distribution(ts) == DecadeLoop(ts, EmptyCounter)

\* --------------------------------------------------- popularity analysis
\* The list comprehension of analyze_popularity: the popularity of the tracks
\* whose popularity is truthy, in list order.
\* Mutant: every track with an integer popularity is counted, zero included.
CountsForPopularity_AnyInt(track) == Get(track, "popularity").t = "int"
\* `if track.get('popularity')`
CountsForPopularity(track) == Truthy(Get(track, "popularity"))
RECURSIVE Popularities(_)
Popularities(ts) ==
    IF ts = <<>> THEN <<>>
    ELSE IF CountsForPopularity(Head(ts))
         THEN <<Get(Head(ts), "popularity").n>> \o Popularities(Tail(ts))
         ELSE Popularities(Tail(ts))

RECURSIVE SumSeq(_)
SumSeq(xs) == IF xs = <<>> THEN 0 ELSE Head(xs) + SumSeq(Tail(xs))
MaxSeq(xs) == CHOOSE m \in {xs[i] : i \in 1..Len(xs)} : \A i \in 1..Len(xs) : xs[i] <= m
MinSeq(xs) == CHOOSE m \in {xs[i] : i \in 1..Len(xs)} : \A i \in 1..Len(xs) : m <= xs[i]

\* sorted(xs), by insertion
RECURSIVE Insert(_, _)
Insert(x, xs) ==
    IF xs = <<>> THEN <<x>>
    ELSE IF x <= Head(xs) THEN <<x>> \o xs ELSE <<Head(xs)>> \o Insert(x, Tail(xs))
RECURSIVE Sorted(_)
Sorted(xs) == IF xs = <<>> THEN <<>> ELSE Insert(Head(xs), Sorted(Tail(xs)))

\* A quotient num/den, kept exact.
Ratio(num, den) == [num |-> num, den |-> den]

\* statistics.mean and statistics.median of a non-empty list
Mean(xs) == Ratio(SumSeq(xs), Len(xs))
Median(xs) ==
    LET data == Sorted(xs)
        n == Len(xs)
    IN  IF n % 2 = 1 THEN Ratio(data[(n \div 2) + 1], 1)
        ELSE Ratio(data[n \div 2] + data[(n \div 2) + 1], 2)

\* analyze_popularity(tracks): None, or the four statistics
analyze_popularity(ts) ==
    LET popularities == Popularities(ts)
    IN  IF popularities = <<>> THEN NoneV
        ELSE [t |-> "stats",
              avg |-> Mean(popularities),
              max |-> MaxSeq(popularities),
              min |-> MinSeq(popularities),
              median |-> Median(popularities)]

\* ------------------------------------------------------------- raw inputs
\* Builders of the raw items the catalog API (or a caller) can hand over. Absent
\* marks a key that the record does not carry.
Absent == [t |-> "absent"]
Field(k, v) == IF v.t = "absent" THEN [x \in {} |-> NoneV] ELSE (k :> v)
MkTrack(id, name, artists, album, popularity) ==
    DictV(Field("id", id) @@ Field("name", name) @@ Field("artists", artists)
          @@ Field("album", album) @@ Field("popularity", popularity))
MkArtist(id, name) == DictV(Field("id", id) @@ Field("name", name))
MkAlbum(release_date) == DictV(("name" :> StrV(<<"L">>)) @@ Field("release_date", release_date))
Wrap(v) == DictV("track" :> v)

IdA == StrV(<<"a">>)
IdB == StrV(<<"b">>)
GoodName == StrV(<<"n">>)
ArtistX == MkArtist(StrV(<<"x">>), StrV(<<"X">>))
ArtistY == MkArtist(StrV(<<"y">>), StrV(<<"Y">>))
GoodArtists == ListV(<<ArtistX>>)
Date1994 == StrV(<<"1","9","9","4","-","0","3","-","0","1">>)
GoodAlbum == MkAlbum(Date1994)
GoodTrack(id) == MkTrack(id, GoodName, GoodArtists, GoodAlbum, IntV(50))
BareTrack(id) == MkTrack(id, Absent, Absent, Absent, Absent)

IdVals == {Absent, NoneV, StrV(<<>>), IdA, IdB}
NameVals == {Absent, NoneV, StrV(<<>>), GoodName}
ArtistsVals == {Absent, NoneV, ListV(<<>>), StrV(<<"x">>), GoodArtists, ListV(<<ArtistX, ArtistY>>)}
AlbumVals == {Absent, NoneV, EmptyDict, StrV(<<"L">>), GoodAlbum, MkAlbum(Absent)}
PopularityVals == {Absent, NoneV, IntV(0), IntV(50), IntV(100), IntV(150)}

\* Track records: every field varied on its own, and the record that has only an id.
TrackItems ==
    {GoodTrack(i) : i \in IdVals}
    \cup {MkTrack(IdA, n, GoodArtists, GoodAlbum, IntV(50)) : n \in NameVals}
    \cup {MkTrack(IdA, GoodName, a, GoodAlbum, IntV(50)) : a \in ArtistsVals}
    \cup {MkTrack(IdA, GoodName, GoodArtists, a, IntV(50)) : a \in AlbumVals}
    \cup {MkTrack(IdA, GoodName, GoodArtists, GoodAlbum, p) : p \in PopularityVals}
    \cup {BareTrack(IdB)}

\* Wrappers {'track': ...}, among them wrappers of records that carry a track field.
WrapperItems ==
    {Wrap(GoodTrack(IdA)), Wrap(BareTrack(IdB)), Wrap(GoodTrack(Absent)),
     Wrap(EmptyDict), Wrap(NoneV),
     DictV(("track" :> NoneV) @@ ("id" :> IdB)),
     DictV(("track" :> EmptyDict) @@ ("id" :> IdB)),
     Wrap(SetKey(GoodTrack(IdA), "track", BareTrack(IdB))),
     Wrap(SetKey(GoodTrack(IdA), "track", EmptyDict)),
     Wrap(SetKey(GoodTrack(IdA), "track", NoneV))}

\* Values that are no track at all.
GarbageItems == {BoolV(TRUE), NoneV, StrV(<<"x">>), IntV(1), EmptyDict, ListV(<<>>)}

RawItems == TrackItems \cup WrapperItems \cup GarbageItems

SeqsUpTo(S, n) == UNION {[1..k -> S] : k \in 0..n}

NoResult == [clean_tracks |-> <<>>, invalid_count |-> 0, patched_count |-> 0]

sanVars == <<tracks, clean_tracks, invalid_count, patched_count, resanitized>>
genreVars == <<track_idx, artist_idx, genre_counter, artist_counter, genre_by_artist,
               processed_artists, artist_calls>>
statVars == <<popularity_stats, decade_dist, report_data>>
mergeVars == <<all_tracks_dict, source_lists, playlists, playlist_idx, merged>>
plVars == <<num_songs, song_idx, track_uris, songs_found_count, not_found_songs,
            search_calls, last_search, playlists_created, added_items>>
mainVars == <<model_ok, session_state, gemini_requests, shown>>
topVars == <<top_items, api_calls, top_tracks>>
pageVars == <<pg_kind, pg_script, pg_idx, pg_acc, pg_calls, pg_result>>
appVars == <<mainVars, topVars, pageVars>>
vars == <<pc, sanVars, genreVars, statVars, mergeVars, plVars, appVars>>

\* The state of an analysis that has not started.
GenreIdle ==
    /\ track_idx = 1
    /\ artist_idx = 1
    /\ genre_counter = EmptyCounter
    /\ artist_counter = EmptyCounter
    /\ genre_by_artist = [g \in {} |-> {}]
    /\ processed_artists = {}
    /\ artist_calls = <<>>
StatIdle ==
    /\ popularity_stats = NoneV
    /\ decade_dist = EmptyCounter
    /\ report_data = NoneV
MergeIdle ==
    /\ all_tracks_dict = <<>>
    /\ source_lists = <<>>
    /\ playlists = 0
    /\ playlist_idx = 1
    /\ merged = <<>>
NoSearch == [song |-> 0, phase |-> 0, outcome |-> "none"]
PlaylistIdle ==
    /\ num_songs = 0
    /\ song_idx = 1
    /\ track_uris = <<>>
    /\ songs_found_count = 0
    /\ not_found_songs = <<>>
    /\ search_calls = 0
    /\ last_search = NoSearch
    /\ playlists_created = 0
    /\ added_items = NoneV

\* The application before any button was pressed and any top-tracks fetch made.
EmptySession == [k \in {} |-> NoneV]
MainIdle ==
    /\ model_ok = TRUE
    /\ session_state = EmptySession
    /\ gemini_requests = <<>>
    /\ shown = <<>>
TopIdle ==
    /\ top_items = NoneV
    /\ api_calls = <<>>
    /\ top_tracks = NoneV
PageIdle ==
    /\ pg_kind = "saved"
    /\ pg_script = <<>>
    /\ pg_idx = 0
    /\ pg_acc = <<>>
    /\ pg_calls = 0
    /\ pg_result = NoneV
AppIdle == MainIdle /\ TopIdle /\ PageIdle

\* ------------------------------------------------- sanitizer: specification
InitSanitize ==
    /\ pc = "start"
    /\ tracks \in SeqsUpTo(RawItems, MaxTracks)
    /\ clean_tracks = <<>>
    /\ invalid_count = 0
    /\ patched_count = 0
    /\ resanitized = NoResult
    /\ GenreIdle
    /\ StatIdle
    /\ MergeIdle
    /\ PlaylistIdle
    /\ AppIdle

\* sanitize_track_list(tracks)
Sanitize ==
    /\ pc = "start"
    /\ LET r == sanitize_track_list(tracks)
       IN  /\ clean_tracks' = r.clean_tracks
           /\ invalid_count' = r.invalid_count
           /\ patched_count' = r.patched_count
    /\ pc' = "sanitized"
    /\ UNCHANGED <<tracks, resanitized, genreVars, statVars, mergeVars, plVars, appVars>>

\* sanitize_track_list applied to the list it returned
Resanitize ==
    /\ pc = "sanitized"
    /\ resanitized' = sanitize_track_list(clean_tracks)
    /\ pc' = "resanitized"
    /\ UNCHANGED <<tracks, clean_tracks, invalid_count, patched_count, genreVars, statVars, mergeVars, plVars, appVars>>

NextSanitize == Sanitize \/ Resanitize

SpecSanitize == InitSanitize /\ [][NextSanitize]_vars

Sanitized == pc \in {"sanitized", "resanitized"}

\* C1: every track sanitize_track_list emits has a non-empty id, a non-empty name
\* and a non-empty list as artists.
C1_EmittedTracksComplete ==
    Sanitized =>
        \A i \in 1..Len(clean_tracks) :
            LET t == clean_tracks[i]
            IN  /\ IsDict(t)
                /\ HasKey(t, "id") /\ Truthy(t.d["id"])
                /\ HasKey(t, "name") /\ Truthy(t.d["name"])
                /\ HasKey(t, "artists") /\ IsList(t.d["artists"])
                /\ Len(t.d["artists"].l) > 0

\* A run in which tracks lacking a name and tracks lacking a usable artists
\* value were emitted, and an item without an id was dropped.
C1_Witness ==
    /\ pc = "sanitized"
    /\ Len(tracks) = 2
    /\ invalid_count = 0
    /\ \E i \in 1..2 : NeedsName(ExtractTrackObj(tracks[i]))
    /\ \E i \in 1..2 : ~NeedsName(ExtractTrackObj(tracks[i]))
                       /\ Truthy(Get(ExtractTrackObj(tracks[i]), "artists"))
                       /\ NeedsArtists(ExtractTrackObj(tracks[i]))

\* C2: every track sanitize_track_list emits has an integer popularity in [0,100].
C2_PopularityInRange ==
    Sanitized =>
        \A i \in 1..Len(clean_tracks) :
            LET t == clean_tracks[i]
            IN  /\ HasKey(t, "popularity")
                /\ t.d["popularity"].t = "int"
                /\ t.d["popularity"].n \in 0..100

\* C3: sanitize_track_list applied to its own output returns that output, with
\* nothing dropped and nothing patched.
C3_Idempotent ==
    pc = "resanitized" =>
        /\ resanitized.clean_tracks = clean_tracks
        /\ resanitized.invalid_count = 0
        /\ resanitized.patched_count = 0

\* The shapes of an input item: a wrapper carries a mapping as its track field;
\* the candidate of an item is that mapping, or the item itself.
WrapsMapping(item) ==
    IF IsDict(item) THEN (IF HasKey(item, "track") THEN IsDict(item.d["track"]) ELSE FALSE)
    ELSE FALSE
CandidateOf(item) == IF WrapsMapping(item) THEN item.d["track"] ELSE item
\* A non-empty id: a string of at least one character under the key id.
HasNonEmptyId(v) ==
    IF IsDict(v)
    THEN IF HasKey(v, "id")
         THEN (IF v.d["id"].t = "str" THEN Len(v.d["id"].s) > 0 ELSE FALSE)
         ELSE FALSE
    ELSE FALSE
\* The input positions whose candidate has a non-empty id, and the j-th of them.
Accepted == {i \in 1..Len(tracks) : HasNonEmptyId(CandidateOf(tracks[i]))}
NthAccepted(j) == CHOOSE i \in Accepted : Cardinality({k \in Accepted : k <= i}) = j
\* The four fields the sanitizer defaults, and whether the j-th emitted track
\* differs from its candidate in field k.
DefaultedFields == {"name", "artists", "album", "popularity"}
Defaulted(j, k) ==
    LET cand == CandidateOf(tracks[NthAccepted(j)])
    IN  IF HasKey(cand, k) THEN cand.d[k] # clean_tracks[j].d[k] ELSE TRUE

\* C15: sanitize_track_list partitions its input: the number of tracks emitted
\* plus the invalid count is the number of input items, and no more tracks are
\* emitted than items were given.
C15_Partition ==
    Sanitized =>
        /\ Len(clean_tracks) + invalid_count = Len(tracks)
        /\ Len(clean_tracks) <= Len(tracks)
        /\ invalid_count <= Len(tracks)

\* One of two items was emitted and the other one counted as invalid.
C15_Witness ==
    /\ pc = "sanitized"
    /\ Len(tracks) = 2
    /\ Len(clean_tracks) = 1
    /\ invalid_count = 1

\* C16: an item is emitted exactly when its candidate (the item itself, or the
\* mapping under its track field) has a non-empty id, whatever its other fields
\* are; every other item is dropped and counted as invalid.
C16_IdIsTheOnlyRule ==
    Sanitized =>
        /\ Len(clean_tracks) = Cardinality(Accepted)
        /\ invalid_count = Len(tracks) - Cardinality(Accepted)
        /\ \A j \in 1..Len(clean_tracks) :
               clean_tracks[j].d["id"] = CandidateOf(tracks[NthAccepted(j)]).d["id"]

\* A wrapper of a record that has nothing but an id was emitted, and a record
\* with an id whose track field is an empty mapping was dropped.
C16_Witness ==
    /\ pc = "sanitized"
    /\ Len(tracks) = 2
    /\ tracks[1] = Wrap(BareTrack(IdB))
    /\ tracks[2] = DictV(("track" :> EmptyDict) @@ ("id" :> IdB))
    /\ Len(clean_tracks) = 1
    /\ invalid_count = 1

\* C17: popularity is set to 0 only when the key is missing, and a present
\* popularity is kept as it is; among tracks whose name, artists and album were
\* kept, exactly those without the key are counted as patched.
C17_PopularityDefaultedOnlyIfAbsent ==
    Sanitized =>
        /\ Len(clean_tracks) = Cardinality(Accepted)
        /\ \A j \in 1..Len(clean_tracks) :
               LET cand == CandidateOf(tracks[NthAccepted(j)])
               IN  clean_tracks[j].d["popularity"] =
                       (IF HasKey(cand, "popularity") THEN cand.d["popularity"] ELSE IntV(0))
        /\ (\A j \in 1..Len(clean_tracks) :
                \A k \in {"name", "artists", "album"} : ~Defaulted(j, k)) =>
               patched_count =
                   Cardinality({j \in 1..Len(clean_tracks) :
                                   ~HasKey(CandidateOf(tracks[NthAccepted(j)]), "popularity")})

\* A track with popularity 0 and a track without popularity were emitted, and
\* one of them was counted as patched.
C17_Witness ==
    /\ pc = "sanitized"
    /\ Len(clean_tracks) = 2
    /\ tracks[1] = MkTrack(IdA, GoodName, GoodArtists, GoodAlbum, IntV(0))
    /\ tracks[2] = MkTrack(IdA, GoodName, GoodArtists, GoodAlbum, Absent)
    /\ patched_count = 1

\* C18: the patched count is the number of emitted tracks of which at least one
\* of name, artists, album and popularity was defaulted, each such track counted
\* once; it never exceeds the number of emitted tracks.
C18_PatchedCount ==
    Sanitized =>
        /\ Len(clean_tracks) = Cardinality(Accepted)
        /\ patched_count =
               Cardinality({j \in 1..Len(clean_tracks) :
                               \E k \in DefaultedFields : Defaulted(j, k)})
        /\ patched_count <= Len(clean_tracks)

\* A record with all four fields missing and a complete record were emitted: the
\* first one counts once, the second one not at all.
C18_Witness ==
    /\ pc = "sanitized"
    /\ Len(clean_tracks) = 2
    /\ tracks[1] = BareTrack(IdB)
    /\ tracks[2] = GoodTrack(IdA)
    /\ patched_count = 1

\* C19: the output is the sequence of the candidates with a non-empty id, in
\* input order and with repetitions: each emitted track carries every field of
\* its candidate, with the candidate's value or, for the four defaulted fields,
\* the placeholder.
C19_OrderKeptNoDedup ==
    Sanitized =>
        /\ Len(clean_tracks) = Cardinality(Accepted)
        /\ \A j \in 1..Len(clean_tracks) :
               LET cand == CandidateOf(tracks[NthAccepted(j)])
                   out == clean_tracks[j]
               IN  /\ DOMAIN cand.d \subseteq DOMAIN out.d
                   /\ \A k \in DOMAIN cand.d :
                          \/ out.d[k] = cand.d[k]
                          \/ /\ k \in DefaultedFields
                             /\ out.d[k] \in {UnnamedTrack, ListV(<<UnknownArtist>>),
                                              UnknownAlbum, IntV(0)}

\* Two different records with the same id were both emitted, in input order.
C19_Witness ==
    /\ pc = "sanitized"
    /\ Len(clean_tracks) = 2
    /\ clean_tracks[1].d["id"] = clean_tracks[2].d["id"]
    /\ clean_tracks[1] = CandidateOf(tracks[1])
    /\ clean_tracks[2] = CandidateOf(tracks[2])
    /\ clean_tracks[1] # clean_tracks[2]

\* ---------------------------------------------------------- genre analysis
\* The genre lists sp.artist may return for an artist.
GenreLists == {<<>>, <<"rock">>, <<"rock", "pop">>, <<"pop", "pop">>}

\* track.get('artists', [])
ArtistsOf(track) == IF HasKey(track, "artists") THEN track.d["artists"].l ELSE <<>>

\* The position of the two nested loops: the first artist reference at or after
\* (i, j), or <<Len(ts) + 1, 1>> when the loops are over.
RECURSIVE NextRef(_, _, _)
NextRef(ts, i, j) ==
    IF i > Len(ts) THEN <<Len(ts) + 1, 1>>
    ELSE IF j <= Len(ArtistsOf(ts[i])) THEN <<i, j>>
    ELSE NextRef(ts, i + 1, 1)

LoopsOver == track_idx > Len(clean_tracks)
CurArtist == ArtistsOf(clean_tracks[track_idx])[artist_idx]

\* `not isinstance(artist, dict) or not artist.get('id')`
SkippedArtist(artist) == IF IsDict(artist) THEN ~Truthy(Get(artist, "id")) ELSE TRUE

\* artist.get('name', 'Unknown')
ArtistName(artist) ==
    IF HasKey(artist, "name") THEN artist.d["name"] ELSE StrV(<<"U","n","k","n","o","w","n">>)

\* Mutant: no artist counts as looked up.
AlreadyProcessed_Never(artist_id) == FALSE
\* `artist_id in processed_artists`
AlreadyProcessed(artist_id) == artist_id \in processed_artists

\* Mutant: the id is not remembered.
MarkProcessed_Forgets(artist_id) == processed_artists
\* processed_artists.add(artist_id)
MarkProcessed(artist_id) == processed_artists \cup {artist_id}

\* Mutant: a genre is counted once per artist however often it is listed.
RECURSIVE CountGenres_OncePerGenre(_, _)
CountGenres_OncePerGenre(counter, genres) ==
    IF genres = <<>> THEN counter
    ELSE IF \E k \in 1..Len(Tail(genres)) : Tail(genres)[k] = Head(genres)
         THEN CountGenres_OncePerGenre(counter, Tail(genres))
         ELSE CountGenres_OncePerGenre(Inc(counter, Head(genres)), Tail(genres))

\* The loop over the genres returned: genre_counter[genre] += 1
RECURSIVE CountGenres(_, _)
CountGenres(counter, genres) ==
    IF genres = <<>> THEN counter ELSE CountGenres(Inc(counter, Head(genres)), Tail(genres))

\* The loop over the genres returned: genre_by_artist[genre].add(artist_name)
RECURSIVE AddContributor(_, _, _)
AddContributor(by_artist, genres, name) ==
    IF genres = <<>> THEN by_artist
    ELSE LET g == Head(genres)
             next == IF g \in DOMAIN by_artist
                     THEN [by_artist EXCEPT ![g] = @ \cup {name}]
                     ELSE by_artist @@ (g :> {name})
         IN  AddContributor(next, Tail(genres), name)

\* The loops move on to the next artist reference.
Advance ==
    LET next == NextRef(clean_tracks, track_idx, artist_idx + 1)
    IN  /\ track_idx' = next[1]
        /\ artist_idx' = next[2]

\* An artist reference that is no dict or has no id: `continue`.
GenreSkipArtist ==
    /\ pc = "genres"
    /\ ~LoopsOver
    /\ SkippedArtist(CurArtist)
    /\ Advance
    /\ UNCHANGED <<pc, sanVars, statVars, genre_counter, artist_counter, genre_by_artist,
                   processed_artists, artist_calls, mergeVars, plVars, appVars>>

\* Mutant: a reference to an artist already looked up is not counted.
GenreCountKnown_Uncounted ==
    /\ pc = "genres"
    /\ ~LoopsOver
    /\ ~SkippedArtist(CurArtist)
    /\ AlreadyProcessed(CurArtist.d["id"])
    /\ Advance
    /\ UNCHANGED <<pc, sanVars, statVars, genre_counter, artist_counter, genre_by_artist,
                   processed_artists, artist_calls, mergeVars, plVars, appVars>>

\* An artist already looked up: counted, not looked up again.
GenreCountKnown ==
    /\ pc = "genres"
    /\ ~LoopsOver
    /\ ~SkippedArtist(CurArtist)
    /\ AlreadyProcessed(CurArtist.d["id"])
    /\ artist_counter' = Inc(artist_counter, ArtistName(CurArtist))
    /\ Advance
    /\ UNCHANGED <<pc, sanVars, statVars, genre_counter, genre_by_artist,
                   processed_artists, artist_calls, mergeVars, plVars, appVars>>

\* A new artist whose lookup succeeds with some genre list.
GenreLookupOk ==
    /\ pc = "genres"
    /\ ~LoopsOver
    /\ ~SkippedArtist(CurArtist)
    /\ ~AlreadyProcessed(CurArtist.d["id"])
    /\ \E genres \in GenreLists :
        /\ artist_calls' = Append(artist_calls,
                                  [id |-> CurArtist.d["id"], ok |-> TRUE, genres |-> genres])
        /\ genre_counter' = CountGenres(genre_counter, genres)
        /\ genre_by_artist' = AddContributor(genre_by_artist, genres, ArtistName(CurArtist))
    /\ artist_counter' = Inc(artist_counter, ArtistName(CurArtist))
    /\ processed_artists' = MarkProcessed(CurArtist.d["id"])
    /\ Advance
    /\ UNCHANGED <<pc, sanVars, statVars, mergeVars, plVars, appVars>>

\* Mutant: the exception of sp.artist leaves analyze_genres.
GenreLookupFail_Raises ==
    /\ pc = "genres"
    /\ ~LoopsOver
    /\ ~SkippedArtist(CurArtist)
    /\ ~AlreadyProcessed(CurArtist.d["id"])
    /\ artist_calls' = Append(artist_calls,
                              [id |-> CurArtist.d["id"], ok |-> FALSE, genres |-> <<>>])
    /\ artist_counter' = Inc(artist_counter, ArtistName(CurArtist))
    /\ processed_artists' = MarkProcessed(CurArtist.d["id"])
    /\ pc' = "genres_raised"
    /\ UNCHANGED <<sanVars, statVars, track_idx, artist_idx, genre_counter, genre_by_artist,
                   mergeVars, plVars, appVars>>

\* A new artist whose lookup raises: the except branch, `continue`.
GenreLookupFail ==
    /\ pc = "genres"
    /\ ~LoopsOver
    /\ ~SkippedArtist(CurArtist)
    /\ ~AlreadyProcessed(CurArtist.d["id"])
    /\ artist_calls' = Append(artist_calls,
                              [id |-> CurArtist.d["id"], ok |-> FALSE, genres |-> <<>>])
    /\ artist_counter' = Inc(artist_counter, ArtistName(CurArtist))
    /\ processed_artists' = MarkProcessed(CurArtist.d["id"])
    /\ Advance
    /\ UNCHANGED <<pc, sanVars, statVars, genre_counter, genre_by_artist, mergeVars, plVars, appVars>>

\* The loops are over: analyze_genres returns its three collections.
GenresReturn ==
    /\ pc = "genres"
    /\ LoopsOver
    /\ pc' = "genres_returned"
    /\ UNCHANGED <<sanVars, genreVars, statVars, mergeVars, plVars, appVars>>

\* Tracks as analyze_genres receives them: the artists list varies.
ArtistXRenamed == MkArtist(StrV(<<"x">>), StrV(<<"Z">>))
ArtistXNoName == MkArtist(StrV(<<"x">>), Absent)
ArtistNoId == MkArtist(Absent, StrV(<<"X">>))
ArtistEmptyId == MkArtist(StrV(<<>>), StrV(<<"Y">>))
ArtistLists ==
    {<<ArtistX>>, <<ArtistY>>, <<ArtistX, ArtistY>>, <<ArtistX, ArtistX>>,
     <<UnknownArtist, ArtistNoId>>, <<ArtistXRenamed>>, <<StrV(<<"x">>), ArtistEmptyId, ArtistY>>,
     <<ArtistXNoName>>}
GenreTracks == {MkTrack(IdA, GoodName, ListV(l), GoodAlbum, IntV(50)) : l \in ArtistLists}

InitGenres ==
    /\ pc = "genres"
    /\ tracks = <<>>
    /\ clean_tracks \in SeqsUpTo(GenreTracks, MaxGenreTracks)
    /\ invalid_count = 0
    /\ patched_count = 0
    /\ resanitized = NoResult
    /\ track_idx = NextRef(clean_tracks, 1, 1)[1]
    /\ artist_idx = NextRef(clean_tracks, 1, 1)[2]
    /\ genre_counter = EmptyCounter
    /\ artist_counter = EmptyCounter
    /\ genre_by_artist = [g \in {} |-> {}]
    /\ processed_artists = {}
    /\ artist_calls = <<>>
    /\ StatIdle
    /\ MergeIdle
    /\ PlaylistIdle
    /\ AppIdle

NextGenres ==
    GenreSkipArtist \/ GenreCountKnown \/ GenreLookupOk \/ GenreLookupFail \/ GenresReturn

SpecGenres == InitGenres /\ [][NextGenres]_vars

\* C6: within one analyze_genres run, sp.artist is called at most once per
\* artist id, whether the first lookup succeeded or failed.
C6_OneLookupPerArtist ==
    \A i, j \in 1..Len(artist_calls) :
        artist_calls[i].id = artist_calls[j].id => i = j

\* A finished run in which an artist whose lookup failed is referenced by two
\* tracks.
C6_Witness ==
    /\ pc = "genres_returned"
    /\ \E c \in 1..Len(artist_calls) :
        /\ ~artist_calls[c].ok
        /\ \E i, j \in 1..Len(clean_tracks) :
            /\ i < j
            /\ \E a \in 1..Len(ArtistsOf(clean_tracks[i])) :
                 ~SkippedArtist(ArtistsOf(clean_tracks[i])[a])
                 /\ ArtistsOf(clean_tracks[i])[a].d["id"] = artist_calls[c].id
            /\ \E a \in 1..Len(ArtistsOf(clean_tracks[j])) :
                 ~SkippedArtist(ArtistsOf(clean_tracks[j])[a])
                 /\ ArtistsOf(clean_tracks[j])[a].d["id"] = artist_calls[c].id

\* The artist references of the run: <<i, j>> is artist j of track i. A
\* reference is scanned once the loops have moved past it.
Refs ==
    UNION {{<<i, j>> : j \in 1..Len(ArtistsOf(clean_tracks[i]))} : i \in 1..Len(clean_tracks)}
RefAt(r) == ArtistsOf(clean_tracks[r[1]])[r[2]]
Before(r, q) == r[1] < q[1] \/ (r[1] = q[1] /\ r[2] < q[2])
Scanned == {r \in Refs : Before(r, <<track_idx, artist_idx>>)}
\* The scanned references whose artist has a non-empty id, and those among
\* them that carry a given id.
IdRefs == {r \in Scanned : HasNonEmptyId(RefAt(r))}
RefsOf(id) == {r \in IdRefs : RefAt(r).d["id"] = id}
\* The reference at which an id is first encountered.
FirstRef(id) == CHOOSE r \in RefsOf(id) : \A q \in RefsOf(id) : q = r \/ Before(r, q)
\* The name the counters file a reference under.
RefName(r) == ArtistName(RefAt(r))
\* How often genre g occurs in a returned genre list.
OccursIn(g, genres) == Cardinality({k \in 1..Len(genres) : genres[k] = g})
\* The lookups that succeeded.
OkCalls == {c \in 1..Len(artist_calls) : artist_calls[c].ok}
RECURSIVE SumCalls(_, _)
SumCalls(g, C) ==
    IF C = {} THEN 0
    ELSE LET c == CHOOSE x \in C : TRUE
         IN  OccursIn(g, artist_calls[c].genres) + SumCalls(g, C \ {c})

\* C25: the artist counter holds, under each name, the number of references
\* scanned so far whose artist has a non-empty id and that name, whether the
\* artist was looked up at that reference, had been looked up before, or its
\* lookup had failed; references without an id, with an empty or null id, and
\* references that are no mapping are not counted.
C25_EveryIdReferenceCounted ==
    LET counted == IdRefs
    IN  /\ DOMAIN artist_counter = {RefName(r) : r \in counted}
        /\ \A n \in DOMAIN artist_counter :
                artist_counter[n] = Cardinality({r \in counted : RefName(r) = n})
        /\ Total(artist_counter) = Cardinality(counted)

\* A finished run: artist X on the first and the third track, its lookup
\* failed; the second track carries the sanitizer's placeholder artist and an
\* artist named X that has no id.
C25_Witness ==
    /\ pc = "genres_returned"
    /\ Len(clean_tracks) = 3
    /\ ArtistsOf(clean_tracks[1]) = <<ArtistX>>
    /\ ArtistsOf(clean_tracks[2]) = <<UnknownArtist, ArtistNoId>>
    /\ ArtistsOf(clean_tracks[3]) = <<ArtistX, ArtistY>>
    /\ ~artist_calls[1].ok
    /\ artist_counter = (ArtistX.d["name"] :> 2) @@ (ArtistY.d["name"] :> 1)

\* C26: the count of a genre is the sum, over the lookups that succeeded (one
\* per artist id), of the occurrences of the genre in the list returned, however
\* many tracks reference the artist; its contributor set holds the name, as of
\* the first reference, of every such artist whose list contains the genre, and
\* no other name.
C26_GenreCountPerArtist ==
    /\ \A g \in {"rock", "pop"} :
            (IF g \in DOMAIN genre_counter THEN genre_counter[g] ELSE 0) = SumCalls(g, OkCalls)
    /\ DOMAIN genre_by_artist = DOMAIN genre_counter
    /\ \A g \in DOMAIN genre_by_artist :
            genre_by_artist[g] =
                {RefName(FirstRef(artist_calls[c].id)) :
                    c \in {x \in OkCalls : OccursIn(g, artist_calls[x].genres) > 0}}
    /\ \A c, d \in OkCalls : artist_calls[c].id = artist_calls[d].id => c = d

\* A finished run: artist X on two tracks, artist Y on one; X returned rock and
\* pop, Y returned pop twice.
C26_Witness ==
    /\ pc = "genres_returned"
    /\ Len(clean_tracks) = 2
    /\ ArtistsOf(clean_tracks[1]) = <<ArtistX>>
    /\ ArtistsOf(clean_tracks[2]) = <<ArtistX, ArtistY>>
    /\ artist_calls = <<[id |-> ArtistX.d["id"], ok |-> TRUE, genres |-> <<"rock", "pop">>],
                        [id |-> ArtistY.d["id"], ok |-> TRUE, genres |-> <<"pop", "pop">>]>>
    /\ genre_counter = ("rock" :> 1) @@ ("pop" :> 3)
    /\ genre_by_artist["pop"] = {ArtistX.d["name"], ArtistY.d["name"]}

\* A step in which sp.artist is called.
LookupStep == Len(artist_calls') = Len(artist_calls) + 1

\* C27: a lookup that raises leaves the genre counter and the contributor sets
\* as they were, counts the reference in the artist counter, and leaves the
\* loops running at the next reference; no lookup is made for an id that was
\* looked up before, failed lookups included.
C27_FailedLookupIsSoft ==
    [][LookupStep =>
        LET call == artist_calls'[Len(artist_calls')]
        IN  /\ \A c \in 1..Len(artist_calls) : artist_calls[c].id # call.id
            /\ ~call.ok =>
                /\ genre_counter' = genre_counter
                /\ genre_by_artist' = genre_by_artist
                /\ artist_counter' = Inc(artist_counter, ArtistName(CurArtist))
                /\ call.id = CurArtist.d["id"]
                /\ pc' = "genres"
                /\ <<track_idx', artist_idx'>> =
                        NextRef(clean_tracks, track_idx, artist_idx + 1)
      ]_vars

\* A finished run: the lookup of artist X failed at the first track, X is
\* referenced again on the second track, where artist Y was then looked up.
C27_Witness ==
    /\ pc = "genres_returned"
    /\ Len(clean_tracks) = 2
    /\ ArtistsOf(clean_tracks[1]) = <<ArtistX>>
    /\ ArtistsOf(clean_tracks[2]) = <<ArtistX, ArtistY>>
    /\ artist_calls = <<[id |-> ArtistX.d["id"], ok |-> FALSE, genres |-> <<>>],
                        [id |-> ArtistY.d["id"], ok |-> TRUE, genres |-> <<"rock">>]>>
    /\ artist_counter = (ArtistX.d["name"] :> 2) @@ (ArtistY.d["name"] :> 1)
    /\ genre_counter = ("rock" :> 1)
    /\ genre_by_artist = ("rock" :> {ArtistY.d["name"]})

\* The references in scan order, and the distinct non-empty ids of a list of
\* references in order of first encounter.
RECURSIVE FlatRefs(_)
FlatRefs(ts) == IF ts = <<>> THEN <<>> ELSE ArtistsOf(Head(ts)) \o FlatRefs(Tail(ts))
RECURSIVE FirstEncounters(_, _)
FirstEncounters(refs, seen) ==
    IF refs = <<>> THEN seen
    ELSE IF HasNonEmptyId(Head(refs))
         THEN IF \E k \in 1..Len(seen) : seen[k] = Head(refs).d["id"]
              THEN FirstEncounters(Tail(refs), seen)
              ELSE FirstEncounters(Tail(refs), Append(seen, Head(refs).d["id"]))
         ELSE FirstEncounters(Tail(refs), seen)

\* C28: the ids passed to sp.artist so far are, in call order, the distinct
\* non-empty artist ids of the references scanned so far in order of first
\* encounter, tracks in list order and each track's artists in list order.
C28_LookupsInFirstEncounterOrder ==
    [c \in 1..Len(artist_calls) |-> artist_calls[c].id] =
        FirstEncounters(SubSeq(FlatRefs(clean_tracks), 1, Cardinality(Scanned)), <<>>)

\* A finished run over three tracks: Y, then X and Y, then X: two lookups, Y
\* before X.
C28_Witness ==
    /\ pc = "genres_returned"
    /\ Len(clean_tracks) = 3
    /\ ArtistsOf(clean_tracks[1]) = <<ArtistY>>
    /\ ArtistsOf(clean_tracks[2]) = <<ArtistX, ArtistY>>
    /\ ArtistsOf(clean_tracks[3]) = <<ArtistX>>
    /\ Len(artist_calls) = 2
    /\ artist_calls[1].id = ArtistY.d["id"]
    /\ artist_calls[2].id = ArtistX.d["id"]

\* ------------------------------------------- popularity and decade analyses
\* popularity_stats = self.analyze_popularity(clean_tracks)
AnalyzePopularity ==
    /\ pc = "genres_returned"
    /\ popularity_stats' = analyze_popularity(clean_tracks)
    /\ pc' = "popularity_done"
    /\ UNCHANGED <<sanVars, genreVars, decade_dist, report_data, mergeVars, plVars, appVars>>

\* decade_dist = self.get_decade_distribution(clean_tracks)
DecadeDistribution ==
    /\ pc = "popularity_done"
    /\ decade_dist' = get_decade_distribution(clean_tracks)
    /\ pc' = "decades_done"
    /\ UNCHANGED <<sanVars, genreVars, popularity_stats, report_data, mergeVars, plVars, appVars>>

\* Tracks as the two analyses receive them: the popularity and the release date
\* vary, each on its own.
Chars1999 == <<"1","9","9","9">>
Chars2005 == <<"2","0","0","5">>
DateVals ==
    {StrV(<<>>), StrV(<<"1","9","9">>), StrV(<<"a","b","c","d","-","0","1">>),
     StrV(<<"1","9","a","4">>), StrV(Chars1999), StrV(Chars2005),
     StrV(<<" ","1","9","9">>), StrV(<<"-","1","9","9">>), NoneV, Absent}
StatTracks ==
    {MkTrack(IdA, GoodName, GoodArtists, GoodAlbum, p) :
        p \in {Absent, NoneV, IntV(0), IntV(40), IntV(50), IntV(100)}}
    \cup {MkTrack(IdA, GoodName, GoodArtists, MkAlbum(d), IntV(50)) : d \in DateVals}
    \cup {MkTrack(IdA, GoodName, GoodArtists, Absent, IntV(50))}

InitAggregate ==
    /\ pc = "genres_returned"
    /\ tracks = <<>>
    /\ clean_tracks \in SeqsUpTo(StatTracks, MaxStatTracks)
    /\ invalid_count = 0
    /\ patched_count = 0
    /\ resanitized = NoResult
    /\ GenreIdle
    /\ StatIdle
    /\ MergeIdle
    /\ PlaylistIdle
    /\ AppIdle

NextAggregate == AnalyzePopularity \/ DecadeDistribution

SpecAggregate == InitAggregate /\ [][NextAggregate]_vars

\* The indices of the tracks that have a nonzero popularity, and their values.
NonzeroPopularity ==
    {i \in 1..Len(clean_tracks) :
        /\ HasKey(clean_tracks[i], "popularity")
        /\ clean_tracks[i].d["popularity"].t = "int"
        /\ clean_tracks[i].d["popularity"].n # 0}
PopularityAt(i) == clean_tracks[i].d["popularity"].n
\* The k-th smallest popularity among the tracks I (1 <= k <= Cardinality(I)).
KthSmallest(I, k) ==
    CHOOSE v \in {PopularityAt(i) : i \in I} :
        /\ Cardinality({i \in I : PopularityAt(i) < v}) < k
        /\ k <= Cardinality({i \in I : PopularityAt(i) <= v})

\* C8: analyze_popularity returns None exactly when no track has a nonzero
\* popularity; otherwise avg, max, min and median are those of exactly the tracks
\* with a nonzero popularity.
C8_PopularityStats ==
    pc \in {"popularity_done", "decades_done"} =>
        LET I == NonzeroPopularity
            n == Cardinality(I)
        IN  /\ (popularity_stats = NoneV) <=> (I = {})
            /\ I # {} =>
                /\ popularity_stats.avg.num = SumOver([i \in I |-> PopularityAt(i)], I)
                /\ popularity_stats.avg.den = n
                /\ \E i \in I : popularity_stats.max = PopularityAt(i)
                /\ \A i \in I : PopularityAt(i) <= popularity_stats.max
                /\ \E i \in I : popularity_stats.min = PopularityAt(i)
                /\ \A i \in I : popularity_stats.min <= PopularityAt(i)
                /\ popularity_stats.median =
                       IF n % 2 = 1 THEN Ratio(KthSmallest(I, (n + 1) \div 2), 1)
                       ELSE Ratio(KthSmallest(I, n \div 2) + KthSmallest(I, (n \div 2) + 1), 2)

\* Statistics were returned for a list that also holds a track with popularity 0
\* and a track without popularity.
C8_Witness ==
    /\ pc = "popularity_done"
    /\ popularity_stats # NoneV
    /\ \E i \in 1..Len(clean_tracks) : Get(clean_tracks[i], "popularity") = IntV(0)
    /\ \E i \in 1..Len(clean_tracks) : ~HasKey(clean_tracks[i], "popularity")

\* A release date that is empty, shorter than 4 characters, or whose first 4
\* characters are no integer.
UnparseableDate(track) ==
    LET d == safe_get(track, <<"album", "release_date">>, NoneV)
    IN  IF d.t # "str" THEN TRUE
        ELSE IF Len(d.s) < 4 THEN TRUE
        ELSE ~ParseInt(SubSeq(d.s, 1, 4)).ok

\* C9: no bucket of the histogram of get_decade_distribution comes from a track
\* whose release date is empty, shorter than 4 characters or unparseable: every
\* bucket counts exactly the tracks with a parseable date of that decade.
C9_NoBucketFromUnparseable ==
    pc = "decades_done" =>
        \A label \in DOMAIN decade_dist :
            /\ decade_dist[label] >= 1
            /\ decade_dist[label] =
                   Cardinality({i \in 1..Len(clean_tracks) :
                       /\ ~UnparseableDate(clean_tracks[i])
                       /\ DecadeLabel(DecadeOf(clean_tracks[i])) = label})

\* A histogram with a bucket, computed over a list that holds a track with a
\* 3-character date and a track with an unparseable date.
C9_Witness ==
    /\ pc = "decades_done"
    /\ DOMAIN decade_dist # {}
    /\ \E i \in 1..Len(clean_tracks) :
           ReleaseDate(clean_tracks[i]) = StrV(<<"1","9","9">>)
    /\ \E i \in 1..Len(clean_tracks) :
           ReleaseDate(clean_tracks[i]) = StrV(<<"1","9","a","4">>)

\* The tracks whose release date has at least 4 characters of which the first 4
\* are an integer, and that integer.
Dated == {i \in 1..Len(clean_tracks) : ~UnparseableDate(clean_tracks[i])}
YearAt(i) == ParseInt(SubSeq(ReleaseDate(clean_tracks[i]).s, 1, 4)).n
\* The decade of a year: the multiple of 10 among the ten integers up to it.
DecadeOfYear(y) == CHOOSE d \in (y - 9)..y : d % 10 = 0
CountAt(counter, k) == IF k \in DOMAIN counter THEN counter[k] ELSE 0

\* C29: going through the list, a track whose release date has at least 4
\* characters whose first 4 parse as the year y adds exactly 1 to the bucket of
\* the decade of y and changes no other bucket, and any other track changes
\* nothing; the histogram returned is the one of the whole list and its counts
\* add up to the number of tracks with such a date.
C29_OnePerDatedTrack ==
    pc = "decades_done" =>
        /\ decade_dist = get_decade_distribution(clean_tracks)
        /\ Total(decade_dist) = Cardinality(Dated)
        /\ LET upto == [k \in 0..Len(clean_tracks) |->
                            get_decade_distribution(SubSeq(clean_tracks, 1, k))]
           IN  \A k \in 1..Len(clean_tracks) :
                LET before == upto[k - 1]
                    after == upto[k]
                    label == DecadeLabel(DecadeOfYear(YearAt(k)))
                IN  IF k \in Dated
                    THEN /\ DOMAIN after = DOMAIN before \cup {label}
                         /\ after[label] = CountAt(before, label) + 1
                         /\ \A l \in DOMAIN before \ {label} : after[l] = before[l]
                    ELSE after = before

\* The histogram of three tracks dated 1999, " 199" and 1999: two in the bucket
\* of 1990 and one in the bucket of 190.
C29_Witness ==
    /\ pc = "decades_done"
    /\ Len(clean_tracks) = 3
    /\ ReleaseDate(clean_tracks[1]) = StrV(Chars1999)
    /\ ReleaseDate(clean_tracks[2]) = StrV(<<" ","1","9","9">>)
    /\ ReleaseDate(clean_tracks[3]) = StrV(Chars1999)
    /\ decade_dist = (DecadeLabel(1990) :> 2) @@ (DecadeLabel(190) :> 1)

\* ------------------------------------------------ run_analysis_on_tracklist
\* Mutant: the check of the sanitized list is left out.
AbortsRun_Never(clean) == FALSE
\* `if not clean_tracks:` the run returns None
AbortsRun(clean) == clean = <<>>

\* clean_tracks = self.sanitize_track_list(tracks); with no clean track the run
\* returns None, otherwise analyze_genres starts.
RunSanitize ==
    /\ pc = "run_start"
    /\ LET r == sanitize_track_list(tracks)
           first == NextRef(r.clean_tracks, 1, 1)
       IN  /\ clean_tracks' = r.clean_tracks
           /\ invalid_count' = r.invalid_count
           /\ patched_count' = r.patched_count
           /\ track_idx' = first[1]
           /\ artist_idx' = first[2]
           /\ pc' = IF AbortsRun(r.clean_tracks) THEN "aborted" ELSE "genres"
    /\ UNCHANGED <<tracks, resanitized, genre_counter, artist_counter, genre_by_artist,
                   processed_artists, artist_calls, statVars, mergeVars, plVars, appVars>>

\* The report is built from the analyses and returned.
BuildReport ==
    /\ pc = "decades_done"
    /\ report_data' = [t |-> "report",
                       genres |-> genre_counter,
                       genre_by_artist |-> genre_by_artist,
                       popularity_stats |-> popularity_stats,
                       decade_distribution |-> decade_dist,
                       unique_genres |-> Cardinality(DOMAIN genre_counter),
                       unique_artists |-> Cardinality(DOMAIN artist_counter),
                       analyzed_tracks |-> Len(clean_tracks)]
    /\ pc' = "returned"
    /\ UNCHANGED <<sanVars, genreVars, popularity_stats, decade_dist, mergeVars, plVars, appVars>>

\* Raw items as a run receives them: the album and its release date vary, next to
\* items that are dropped.
RunItems ==
    {GoodTrack(IdA),
     MkTrack(IdB, GoodName, GoodArtists, Absent, IntV(50)),
     MkTrack(IdB, GoodName, GoodArtists, EmptyDict, IntV(50)),
     MkTrack(IdB, GoodName, GoodArtists, MkAlbum(Absent), IntV(50)),
     MkTrack(IdB, GoodName, GoodArtists, MkAlbum(StrV(<<>>)), IntV(50)),
     MkTrack(IdB, GoodName, GoodArtists, MkAlbum(StrV(<<"1","9","9">>)), IntV(50)),
     MkTrack(IdB, GoodName, GoodArtists, MkAlbum(StrV(<<"a","b","c","d">>)), IntV(50)),
     MkTrack(IdB, GoodName, ListV(<<ArtistX, ArtistY>>), MkAlbum(StrV(Chars2005)), IntV(0)),
     Wrap(BareTrack(IdA)),
     GoodTrack(Absent),
     NoneV}

InitAnalysis ==
    /\ pc = "run_start"
    /\ tracks \in SeqsUpTo(RunItems, MaxRunTracks)
    /\ clean_tracks = <<>>
    /\ invalid_count = 0
    /\ patched_count = 0
    /\ resanitized = NoResult
    /\ GenreIdle
    /\ StatIdle
    /\ MergeIdle
    /\ PlaylistIdle
    /\ AppIdle

NextAnalysis ==
    \/ RunSanitize
    \/ GenreSkipArtist \/ GenreCountKnown \/ GenreLookupOk \/ GenreLookupFail \/ GenresReturn
    \/ AnalyzePopularity
    \/ DecadeDistribution
    \/ BuildReport

SpecAnalysis == InitAnalysis /\ [][NextAnalysis]_vars

\* The raw record of an input item, and whether it carried a parseable date.
CarriedParseableDate(item) ==
    IF IsInvalid(item) THEN FALSE ELSE ~UnparseableDate(ExtractTrackObj(item))

\* C10: in a full run the decade histogram skips every track whose raw record
\* has no album or no parseable release date: its total is the number of input
\* tracks that carried a parseable release date.
C10_HistogramTotal ==
    pc = "returned" =>
        Total(report_data.decade_distribution) =
            Cardinality({i \in 1..Len(tracks) : CarriedParseableDate(tracks[i])})

\* ------------------------------------------- get_all_user_tracks_heavy
\* The tag that tells the records of one source from those of another: source 0
\* is the library, source k the k-th playlist.
SourceTags == <<"s", "p", "q", "r", "u">>
SourceTrack(id, k) == DictV(("id" :> id) @@ ("name" :> StrV(<<SourceTags[k + 1]>>)))

\* The items one page of source k can hold: saved or playlist items that wrap a
\* track, or a null track.
PageItems(k) == {Wrap(SourceTrack(IdA, k)), Wrap(SourceTrack(IdB, k)), Wrap(NoneV)}

\* The items of a source, each track numbered among the items of the source
\* that hold its id: two items of a source never hold the same record.
Numbered(its) ==
    [i \in 1..Len(its) |->
        IF IsDict(its[i].d["track"])
        THEN Wrap(SetKey(its[i].d["track"], "track_number",
                         IntV(Cardinality({j \in 1..i : its[j] = its[i]}))))
        ELSE its[i]]
SourceItems(k) == {Numbered(its) : its \in SeqsUpTo(PageItems(k), MaxSourceItems)}

\* What the provider answers for source k: no page at all (the first call
\* raises), or the items cut into one or two pages; `next` says whether the first
\* page announces a next page (when it does and there is none, fetching it raises
\* or yields nothing).
Scripts(k) ==
    {<<>>}
    \cup {<<[items |-> its, next |-> nx]>> : its \in SourceItems(k), nx \in BOOLEAN}
    \cup UNION {{<<[items |-> SubSeq(its, 1, cut), next |-> nx],
                   [items |-> SubSeq(its, cut + 1, Len(its)), next |-> FALSE]>> :
                    cut \in 0..Len(its), nx \in BOOLEAN} :
                 its \in SourceItems(k)}

\* The list comprehension of get_all_saved_tracks / get_playlist_tracks: the
\* track of every item whose track is a dict with a truthy id.
RECURSIVE PageTracks(_)
PageTracks(items) ==
    IF items = <<>> THEN <<>>
    ELSE LET track == safe_get(Head(items), <<"track">>, NoneV)
         IN  IF IsDict(track) /\ Truthy(safe_get(Head(items), <<"track", "id">>, NoneV))
             THEN <<Head(items).d["track"]>> \o PageTracks(Tail(items))
             ELSE PageTracks(Tail(items))

\* The while loop of get_all_saved_tracks / get_playlist_tracks from page idx on:
\* the tracks of the page are added; with a next-page marker the next page is
\* fetched, without one the loop breaks. A fetch that raises, or yields nothing,
\* ends the loop with the tracks read so far.
RECURSIVE FetchLoop(_, _, _)
FetchLoop(script, idx, acc) ==
    LET page == script[idx]
        read == acc \o PageTracks(page.items)
    IN  IF page.next /\ idx < Len(script)
        THEN FetchLoop(script, idx + 1, read)
        ELSE read

\* get_all_saved_tracks() / get_playlist_tracks(id): the list returned
FetchTracks(script) == IF script = <<>> THEN <<>> ELSE FetchLoop(script, 1, <<>>)

\* Mutant: entries are keyed by the whole record.
MergeKey_WholeTrack(track) == track
\* The key of a track in all_tracks_dict: track['id']
MergeKey(track) == track.d["id"]

\* Mutant: a known key keeps its value.
Put_FirstWins(dict, key, track) ==
    IF \E i \in 1..Len(dict) : dict[i].key = key
    THEN dict
    ELSE Append(dict, [key |-> key, value |-> track])
\* all_tracks_dict[key] = track: a new key is appended, a known key keeps its
\* place and takes the new value.
Put(dict, key, track) ==
    IF \E i \in 1..Len(dict) : dict[i].key = key
    THEN [i \in 1..Len(dict) |->
            IF dict[i].key = key THEN [key |-> key, value |-> track] ELSE dict[i]]
    ELSE Append(dict, [key |-> key, value |-> track])

\* for track in list: if track and track.get('id'): all_tracks_dict[track['id']] = track
RECURSIVE MergeInto(_, _)
MergeInto(dict, list) ==
    IF list = <<>> THEN dict
    ELSE LET track == Head(list)
         IN  IF Truthy(track) /\ Truthy(Get(track, "id"))
             THEN MergeInto(Put(dict, MergeKey(track), track), Tail(list))
             ELSE MergeInto(dict, Tail(list))

\* list(all_tracks_dict.values())
Values(dict) == [i \in 1..Len(dict) |-> dict[i].value]

\* Phase 1: the saved tracks are fetched and merged.
MergeSaved ==
    /\ pc = "m_start"
    /\ \E script \in Scripts(0) :
        LET saved_tracks == FetchTracks(script)
        IN  /\ all_tracks_dict' = MergeInto(all_tracks_dict, saved_tracks)
            /\ source_lists' = Append(source_lists, saved_tracks)
    /\ pc' = "m_playlists"
    /\ UNCHANGED <<sanVars, genreVars, statVars, playlists, playlist_idx, merged, plVars, appVars>>

\* Phase 2: get_user_playlists() returns some number of playlists.
GetPlaylists ==
    /\ pc = "m_playlists"
    /\ \E n \in 0..MaxPlaylists : playlists' = n
    /\ playlist_idx' = 1
    /\ pc' = "m_scan"
    /\ UNCHANGED <<sanVars, genreVars, statVars, all_tracks_dict, source_lists, merged, plVars, appVars>>

\* Phase 3, one playlist: its tracks are fetched and merged.
ScanPlaylist ==
    /\ pc = "m_scan"
    /\ playlist_idx <= playlists
    /\ \E script \in Scripts(playlist_idx) :
        LET playlist_tracks == FetchTracks(script)
        IN  /\ all_tracks_dict' = MergeInto(all_tracks_dict, playlist_tracks)
            /\ source_lists' = Append(source_lists, playlist_tracks)
    /\ playlist_idx' = playlist_idx + 1
    /\ UNCHANGED <<pc, sanVars, genreVars, statVars, playlists, merged, plVars, appVars>>

\* Phase 3, one playlist whose scan raises (a playlist without an id): the
\* except branch warns and the loop goes on.
ScanPlaylistError ==
    /\ pc = "m_scan"
    /\ playlist_idx <= playlists
    /\ playlist_idx' = playlist_idx + 1
    /\ UNCHANGED <<pc, sanVars, genreVars, statVars, all_tracks_dict, source_lists,
                   playlists, merged, plVars, appVars>>

\* return list(all_tracks_dict.values())
MergeReturn ==
    /\ pc = "m_scan"
    /\ playlist_idx > playlists
    /\ merged' = Values(all_tracks_dict)
    /\ pc' = "m_returned"
    /\ UNCHANGED <<sanVars, genreVars, statVars, all_tracks_dict, source_lists,
                   playlists, playlist_idx, plVars, appVars>>

InitMerge ==
    /\ pc = "m_start"
    /\ tracks = <<>>
    /\ clean_tracks = <<>>
    /\ invalid_count = 0
    /\ patched_count = 0
    /\ resanitized = NoResult
    /\ GenreIdle
    /\ StatIdle
    /\ MergeIdle
    /\ PlaylistIdle
    /\ AppIdle

NextMerge == MergeSaved \/ GetPlaylists \/ ScanPlaylist \/ ScanPlaylistError \/ MergeReturn

SpecMerge == InitMerge /\ [][NextMerge]_vars

\* The non-empty track ids that occur in the lists that were merged.
SourceIds ==
    UNION {{source_lists[k][i].d["id"] :
                i \in {i \in 1..Len(source_lists[k]) :
                          Truthy(Get(source_lists[k][i], "id"))}} :
            k \in 1..Len(source_lists)}

\* C7: the list get_all_user_tracks_heavy returns has as many tracks as there are
\* distinct non-empty ids in the saved tracks and the playlists' tracks, each id
\* once.
C7_MergedDistinctIds ==
    pc = "m_returned" =>
        /\ Len(merged) = Cardinality(SourceIds)
        /\ \A id \in SourceIds :
               Cardinality({i \in 1..Len(merged) : merged[i].d["id"] = id}) = 1

\* A merge of the library and two playlists in which one id occurs in two
\* sources and another id in one.
C7_Witness ==
    /\ pc = "m_returned"
    /\ Len(source_lists) = 3
    /\ Len(merged) = 2
    /\ \E k1, k2 \in 1..3 :
        /\ k1 < k2
        /\ \E i \in 1..Len(source_lists[k1]) : \E j \in 1..Len(source_lists[k2]) :
               source_lists[k1][i].d["id"] = source_lists[k2][j].d["id"]

\* The places <<source, position>> at which the merged lists hold a record with
\* the given id, and the last of them in merge order.
Occurrences(id) ==
    UNION {{<<k, i>> : i \in {i \in 1..Len(source_lists[k]) :
                                  Get(source_lists[k][i], "id") = id}} :
            k \in 1..Len(source_lists)}
LastOccurrence(id) ==
    CHOOSE p \in Occurrences(id) :
        \A q \in Occurrences(id) : q[1] < p[1] \/ (q[1] = p[1] /\ q[2] <= p[2])

\* C20: for an id that occurs more than once, get_all_user_tracks_heavy keeps
\* the record written last: the one of the last source that has the id (the
\* library first, then the playlists in listing order), and within that source
\* the one of the last item.
C20_LastWriteWins ==
    pc = "m_returned" =>
        \A i \in 1..Len(merged) :
            LET p == LastOccurrence(merged[i].d["id"])
            IN  merged[i] = source_lists[p[1]][p[2]]

\* The library held two different records of one id, a playlist held a third
\* one, and the merge returned the playlist's.
C20_Witness ==
    /\ pc = "m_returned"
    /\ Len(source_lists) >= 2
    /\ Len(source_lists[1]) = 2
    /\ source_lists[1][1].d["id"] = IdA
    /\ source_lists[1][2].d["id"] = IdA
    /\ source_lists[1][1] # source_lists[1][2]
    /\ \E i \in 1..Len(source_lists[2]) : source_lists[2][i].d["id"] = IdA
    /\ Len(source_lists) = 2
    /\ merged[1] \notin {source_lists[1][1], source_lists[1][2]}

\* ------------------------------------------------- create_spotify_playlist
\* The URI the catalog returns for suggestion i.
UriOf(i) == [t |-> "uri", song |-> i]

\* Mutant: the comparison is strict.
TargetReached_Strict == songs_found_count > PLAYLIST_TARGET_SIZE
\* Mutant: the check is left out.
TargetReached_Never == FALSE
\* `songs_found_count >= config.PLAYLIST_TARGET_SIZE`
TargetReached == songs_found_count >= PLAYLIST_TARGET_SIZE

\* data = json.loads(playlist_json) with an empty song list: the function returns.
LoadNoSongs ==
    /\ pc = "pl_start"
    /\ num_songs = 0
    /\ pc' = "pl_returned"
    /\ UNCHANGED <<sanVars, genreVars, statVars, mergeVars, plVars, appVars>>

\* data = json.loads(playlist_json) with songs: the loop starts.
LoadSongs ==
    /\ pc = "pl_start"
    /\ num_songs > 0
    /\ pc' = "pl_loop"
    /\ UNCHANGED <<sanVars, genreVars, statVars, mergeVars, plVars, appVars>>

\* Loop head: the suggestions are exhausted.
LoopExhausted ==
    /\ pc = "pl_loop"
    /\ song_idx > num_songs
    /\ pc' = "pl_after_loop"
    /\ UNCHANGED <<sanVars, genreVars, statVars, mergeVars, plVars, appVars>>

\* Loop head: enough tracks were found, `break`.
LoopBreak ==
    /\ pc = "pl_loop"
    /\ song_idx <= num_songs
    /\ TargetReached
    /\ pc' = "pl_after_loop"
    /\ UNCHANGED <<sanVars, genreVars, statVars, mergeVars, plVars, appVars>>

\* Loop head: the next suggestion is attempted.
LoopNextSong ==
    /\ pc = "pl_loop"
    /\ song_idx <= num_songs
    /\ ~TargetReached
    /\ pc' = "pl_phase1"
    /\ UNCHANGED <<sanVars, genreVars, statVars, mergeVars, plVars, appVars>>

\* Mutant: a suggestion that was not found is counted as resolved.
NotFound_Counted ==
    /\ not_found_songs' = Append(not_found_songs, song_idx)
    /\ songs_found_count' = songs_found_count + 1
    /\ song_idx' = song_idx + 1
    /\ pc' = "pl_loop"
    /\ UNCHANGED track_uris

\* The end of an iteration whose track_uri is set.
Found ==
    /\ track_uris' = Append(track_uris, UriOf(song_idx))
    /\ songs_found_count' = songs_found_count + 1
    /\ song_idx' = song_idx + 1
    /\ pc' = "pl_loop"
    /\ UNCHANGED not_found_songs

\* The end of an iteration whose track_uri is None.
NotFound ==
    /\ not_found_songs' = Append(not_found_songs, song_idx)
    /\ song_idx' = song_idx + 1
    /\ pc' = "pl_loop"
    /\ UNCHANGED <<track_uris, songs_found_count>>

\* sp.search is called for the current suggestion in phase ph, with an outcome.
Search(ph, outcome) ==
    /\ search_calls' = search_calls + 1
    /\ last_search' = [song |-> song_idx, phase |-> ph, outcome |-> outcome]

\* Mutant: phase 2 is attempted whatever phase 1 returned.
NeedsPhase2_Always(outcome) == TRUE
\* `if not track_uri:` after phase 1: track_uri is set only by an answer
\* with an item, it stays None after an empty answer and after an exception.
NeedsPhase2(outcome) == outcome # "hit"

\* Mutant: an exception of sp.search leaves the function through the outer
\* except branch.
AfterSearch_Propagates(outcome, next) == IF outcome = "error" THEN "pl_error" ELSE next
\* The `except Exception` of a search logs the exception: whatever the outcome
\* of sp.search, execution goes on at the statement after the try block.
AfterSearch(outcome, next) == next

\* Phase 1 returns an item: phase 2 is skipped.
Phase1Hit ==
    /\ pc = "pl_phase1"
    /\ ~NeedsPhase2("hit")
    /\ Search(1, "hit")
    /\ Found
    /\ UNCHANGED <<sanVars, genreVars, statVars, mergeVars, num_songs,
                   playlists_created, added_items, appVars>>

\* Phase 1 returns no item, or raises.
Phase1NoMatch ==
    /\ pc = "pl_phase1"
    /\ \E outcome \in {"hit", "miss", "error"} :
        /\ NeedsPhase2(outcome)
        /\ Search(1, outcome)
        /\ pc' = AfterSearch(outcome, "pl_phase2")
    /\ UNCHANGED <<sanVars, genreVars, statVars, mergeVars, num_songs, song_idx, track_uris,
                   songs_found_count, not_found_songs, playlists_created, added_items, appVars>>

\* Phase 2 returns an item.
Phase2Hit ==
    /\ pc = "pl_phase2"
    /\ Search(2, "hit")
    /\ Found
    /\ UNCHANGED <<sanVars, genreVars, statVars, mergeVars, num_songs,
                   playlists_created, added_items, appVars>>

\* Phase 2 returns no item, or raises: the suggestion is not found.
Phase2NoMatch ==
    /\ pc = "pl_phase2"
    /\ \E outcome \in {"miss", "error"} : Search(2, outcome)
    /\ NotFound
    /\ UNCHANGED <<sanVars, genreVars, statVars, mergeVars, num_songs,
                   playlists_created, added_items, appVars>>

\* After the loop without any URI: the function returns.
NothingResolved ==
    /\ pc = "pl_after_loop"
    /\ track_uris = <<>>
    /\ pc' = "pl_returned"
    /\ UNCHANGED <<sanVars, genreVars, statVars, mergeVars, plVars, appVars>>

\* Mutant: the playlist is created whether or not a URI was resolved.
CreatePlaylist_EvenIfEmpty ==
    /\ pc = "pl_after_loop"
    /\ playlists_created' = playlists_created + 1
    /\ pc' = "pl_created"
    /\ UNCHANGED <<sanVars, genreVars, statVars, mergeVars, num_songs, song_idx, track_uris,
                   songs_found_count, not_found_songs, search_calls, last_search, added_items, appVars>>

\* sp.user_playlist_create succeeds.
CreatePlaylist ==
    /\ pc = "pl_after_loop"
    /\ track_uris # <<>>
    /\ playlists_created' = playlists_created + 1
    /\ pc' = "pl_created"
    /\ UNCHANGED <<sanVars, genreVars, statVars, mergeVars, num_songs, song_idx, track_uris,
                   songs_found_count, not_found_songs, search_calls, last_search, added_items, appVars>>

\* sp.user_playlist_create is called and raises: the outer except branch.
CreatePlaylistFails ==
    /\ pc = "pl_after_loop"
    /\ track_uris # <<>>
    /\ playlists_created' = playlists_created + 1
    /\ pc' = "pl_error"
    /\ UNCHANGED <<sanVars, genreVars, statVars, mergeVars, num_songs, song_idx, track_uris,
                   songs_found_count, not_found_songs, search_calls, last_search, added_items, appVars>>

\* sp.playlist_add_items(playlist['id'], track_uris) succeeds.
AddItems ==
    /\ pc = "pl_created"
    /\ added_items' = ListV(track_uris)
    /\ pc' = "pl_done"
    /\ UNCHANGED <<sanVars, genreVars, statVars, mergeVars, num_songs, song_idx, track_uris,
                   songs_found_count, not_found_songs, search_calls, last_search,
                   playlists_created, appVars>>

\* sp.playlist_add_items raises: the outer except branch.
AddItemsFails ==
    /\ pc = "pl_created"
    /\ pc' = "pl_error"
    /\ UNCHANGED <<sanVars, genreVars, statVars, mergeVars, plVars, appVars>>

InitPlaylist ==
    /\ pc = "pl_start"
    /\ tracks = <<>>
    /\ clean_tracks = <<>>
    /\ invalid_count = 0
    /\ patched_count = 0
    /\ resanitized = NoResult
    /\ GenreIdle
    /\ StatIdle
    /\ MergeIdle
    /\ num_songs \in 0..MaxSongs
    /\ song_idx = 1
    /\ track_uris = <<>>
    /\ songs_found_count = 0
    /\ not_found_songs = <<>>
    /\ search_calls = 0
    /\ last_search = NoSearch
    /\ playlists_created = 0
    /\ added_items = NoneV
    /\ AppIdle

NextPlaylist ==
    \/ LoadNoSongs \/ LoadSongs
    \/ LoopExhausted \/ LoopBreak \/ LoopNextSong
    \/ Phase1Hit \/ Phase1NoMatch \/ Phase2Hit \/ Phase2NoMatch
    \/ NothingResolved \/ CreatePlaylist \/ CreatePlaylistFails
    \/ AddItems \/ AddItemsFails

SpecPlaylist == InitPlaylist /\ [][NextPlaylist]_vars

\* C4: create_spotify_playlist never holds more resolved URIs than the target
\* count, at any point of the loop and at the call of playlist_add_items.
C4_AtMostTarget ==
    /\ Len(track_uris) <= PLAYLIST_TARGET_SIZE
    /\ songs_found_count <= PLAYLIST_TARGET_SIZE
    /\ added_items # NoneV => Len(added_items.l) <= PLAYLIST_TARGET_SIZE

\* playlist_add_items received exactly the target count of URIs although a
\* suggestion had not been found and a further suggestion was left.
C4_Witness ==
    /\ pc = "pl_done"
    /\ Len(added_items.l) = PLAYLIST_TARGET_SIZE
    /\ not_found_songs # <<>>
    /\ song_idx <= num_songs

\* C5: once the resolved count has reached the target, no further sp.search is
\* issued.
C5_NoSearchAfterTarget ==
    [][songs_found_count >= PLAYLIST_TARGET_SIZE => search_calls' = search_calls]_vars

\* The first ten suggestions resolved in phase 1, the loop broke with suggestions
\* left, and the playlist was filled.
C5_Witness ==
    /\ pc = "pl_done"
    /\ songs_found_count = PLAYLIST_TARGET_SIZE
    /\ search_calls = PLAYLIST_TARGET_SIZE
    /\ song_idx = PLAYLIST_TARGET_SIZE + 1
    /\ song_idx <= num_songs

\* A step that issues one sp.search call.
SearchStep == search_calls' # search_calls
\* The suggestions whose iteration has ended.
Attempted == 1..(song_idx - 1)
\* The suggestions whose URI is in the resolved list.
ResolvedSongs == {track_uris[k].song : k \in 1..Len(track_uris)}
NotFoundSongs == {not_found_songs[k] : k \in 1..Len(not_found_songs)}

\* C21: every search is one call for the suggestion of the iteration; the first
\* search of a suggestion is phase 1, a phase 2 search is issued exactly when
\* the search before it was phase 1 of the same suggestion and set no URI, and
\* it is that suggestion's last; a phase 1 hit appends its URI and ends the
\* iteration at once. So a suggestion costs one call when phase 1 matches and
\* two otherwise, and an iteration ends only by a search.
C21_Phase2IffPhase1Missed ==
    [][/\ SearchStep =>
            /\ search_calls' = search_calls + 1
            /\ last_search'.song = song_idx
            /\ last_search'.phase \in {1, 2}
            /\ last_search'.phase = 1 <=> last_search.song # song_idx
            /\ last_search'.phase = 2 <=>
                    /\ last_search.song = song_idx
                    /\ last_search.phase = 1
                    /\ last_search.outcome # "hit"
            /\ song_idx' = IF last_search'.phase = 2 \/ last_search'.outcome = "hit"
                           THEN song_idx + 1 ELSE song_idx
            /\ (last_search'.phase = 1 /\ last_search'.outcome = "hit") =>
                    track_uris' = Append(track_uris, UriOf(song_idx))
       /\ song_idx' # song_idx => SearchStep
       /\ pc = "pl_phase2" => SearchStep
      ]_vars

\* Suggestions 1 and 2 matched in phase 1, suggestion 3 only in phase 2: four
\* calls were made, two of them for suggestion 3.
C21_Witness ==
    /\ pc = "pl_loop"
    /\ song_idx = 4
    /\ track_uris = <<UriOf(1), UriOf(2), UriOf(3)>>
    /\ last_search = [song |-> 3, phase |-> 2, outcome |-> "hit"]
    /\ search_calls = 4

\* C22: a search that raises never leaves the function: after a raising phase 1
\* the same suggestion is at phase 2, whose next step is the phase 2 search;
\* after a raising phase 2 the suggestion is recorded as not found and the loop
\* is at the next suggestion; the resolved URIs and their count are unchanged.
C22_SearchErrorIsNonMatch ==
    [][/\ (SearchStep /\ last_search'.outcome = "error") =>
            /\ track_uris' = track_uris
            /\ songs_found_count' = songs_found_count
            /\ IF last_search'.phase = 1
               THEN /\ pc' = "pl_phase2"
                    /\ song_idx' = song_idx
                    /\ not_found_songs' = not_found_songs
               ELSE /\ pc' = "pl_loop"
                    /\ song_idx' = song_idx + 1
                    /\ not_found_songs' = Append(not_found_songs, song_idx)
       /\ (pc = "pl_phase2" /\ last_search.outcome = "error") =>
            /\ SearchStep
            /\ last_search'.song = last_search.song
            /\ last_search'.phase = 2
      ]_vars

\* Suggestion 1 was resolved, both searches of suggestion 2 raised, and the
\* playlist was still created with the URI of suggestion 1.
C22_Witness ==
    /\ pc = "pl_done"
    /\ num_songs = 2
    /\ last_search = [song |-> 2, phase |-> 2, outcome |-> "error"]
    /\ search_calls = 3
    /\ added_items = ListV(<<UriOf(1)>>)
    /\ not_found_songs = <<2>>

\* C23: the suggestions whose iteration has ended are split into the resolved
\* and the not-found ones, each suggestion in exactly one list and once; the
\* counter equals the length of the resolved list, the two lengths add up to
\* the number of suggestions attempted, and both lists are in suggestion order.
C23_ResolvedOrNotFound ==
    /\ songs_found_count = Len(track_uris)
    /\ Len(track_uris) + Len(not_found_songs) = song_idx - 1
    /\ ResolvedSongs \cup NotFoundSongs = Attempted
    /\ ResolvedSongs \cap NotFoundSongs = {}
    /\ \A j, k \in 1..Len(track_uris) : j < k => track_uris[j].song < track_uris[k].song
    /\ \A j, k \in 1..Len(not_found_songs) : j < k => not_found_songs[j] < not_found_songs[k]
    /\ \A k \in 1..Len(track_uris) : track_uris[k] = UriOf(track_uris[k].song)

\* The loop ended after four suggestions: the first and the third resolved, the
\* second and the fourth not found.
C23_Witness ==
    /\ pc = "pl_after_loop"
    /\ num_songs = 4
    /\ track_uris = <<UriOf(1), UriOf(3)>>
    /\ songs_found_count = 2
    /\ not_found_songs = <<2, 4>>

\* C24: sp.user_playlist_create is called at most once and only after the loop
\* with a non-empty resolved list; when the function has ended it was called
\* exactly once if a URI was resolved and not at all otherwise;
\* sp.playlist_add_items is called only after the create call and receives
\* exactly the resolved URIs.
C24_CreateOnlyIfResolved ==
    /\ playlists_created \in {0, 1}
    /\ playlists_created = 1 =>
            /\ track_uris # <<>>
            /\ pc \in {"pl_created", "pl_done", "pl_error"}
    /\ added_items # NoneV =>
            /\ playlists_created = 1
            /\ added_items = ListV(track_uris)
            /\ pc = "pl_done"
    /\ pc \in {"pl_returned", "pl_done", "pl_error"} =>
            playlists_created = (IF track_uris = <<>> THEN 0 ELSE 1)
    /\ pc = "pl_done" => added_items # NoneV

\* One of three suggestions was resolved, in phase 2: the playlist was created
\* once and filled with that URI.
C24_Witness ==
    /\ pc = "pl_done"
    /\ num_songs = 3
    /\ playlists_created = 1
    /\ track_uris = <<UriOf(2)>>
    /\ added_items = ListV(<<UriOf(2)>>)
    /\ last_search = [song |-> 3, phase |-> 2, outcome |-> "miss"]

\* ------------------------------------------------------ GeminiReportAnalyzer
\* What the generative service does with a request: the call raises, or it
\* answers; an answer without parts was blocked by the content policy. Every
\* answer, blocked or not, carries usage metadata.
Usage == [prompt_token_count |-> 7, candidates_token_count |-> 5, total_token_count |-> 12]
Raise == [t |-> "raise", e |-> "e"]
Answer(text) ==
    [t |-> "response", parts |-> TRUE, text |-> text, prompt_feedback |-> "none",
     usage_metadata |-> Usage]
Blocked ==
    [t |-> "response", parts |-> FALSE, text |-> NoneV, prompt_feedback |-> "block_reason",
     usage_metadata |-> Usage]

\* A text the service generated; doc is what the text says: for a listing request
\* the JSON document it holds, NotJson when it holds none.
TextV(doc) == [t |-> "text", doc |-> doc]
NotJson == [t |-> "not_json"]

\* usage_metrics = {"prompt_tokens": ..., "response_tokens": ..., "total_tokens": ...}
UsageMetrics(usage) ==
    DictV([prompt_tokens |-> IntV(usage.prompt_token_count),
           response_tokens |-> IntV(usage.candidates_token_count),
           total_tokens |-> IntV(usage.total_token_count)])

\* st.error(text with arg formatted in), st.code(arg)
StError(text, arg) == [call |-> "error", text |-> text, arg |-> arg]
StCode(arg) == [call |-> "code", text |-> "", arg |-> arg]

\* What a generate function hands back: the pair it returns and what it put on
\* the page.
Outcome(text, metrics, messages) == [text |-> text, metrics |-> metrics, shown |-> messages]

\* `return "Analiz, içerik filtrelemesi nedeniyle engellendi.", None`
BlockedText == TextV("Analiz, icerik filtrelemesi nedeniyle engellendi.")

\* generate_insights: the except branch
InsightsFailed(response) ==
    Outcome(NoneV, NoneV, <<StError("Gemini analizi sirasinda hata", response.e)>>)
\* generate_insights: the branch of an answer without parts
InsightsBlocked(response) ==
    Outcome(BlockedText, NoneV,
            <<StError("Gemini Yaniti Engellendi! Sebep", response.prompt_feedback)>>)

\* generate_insights(report_data) with self.model and the service's reaction
generate_insights(model, response) ==
    IF ~model THEN Outcome(NoneV, NoneV, <<>>)
    ELSE IF response.t = "raise" THEN InsightsFailed(response)
    ELSE IF response.parts
         THEN Outcome(response.text, UsageMetrics(response.usage_metadata), <<>>)
         ELSE InsightsBlocked(response)

\* Song and Playlist: a string of 1 to 200 characters.
IsSongField(v) == IF v.t = "str" THEN Len(v.s) >= 1 /\ Len(v.s) <= 200 ELSE FALSE
\* Song: a mapping with the fields artist and track.
IsSong(v) ==
    IF IsDict(v)
    THEN IF HasKey(v, "artist") /\ HasKey(v, "track")
         THEN IsSongField(v.d["artist"]) /\ IsSongField(v.d["track"])
         ELSE FALSE
    ELSE FALSE
\* Mutant: every text passes the validation.
ValidPlaylist_Anything(text) == TRUE
\* Playlist.model_validate_json(json_text) does not raise: the text is JSON, a
\* mapping whose songs field is a list of 1 to 50 songs.
ValidPlaylist(text) ==
    IF text.doc = NotJson THEN FALSE
    ELSE IF IsDict(text.doc)
    THEN IF HasKey(text.doc, "songs")
         THEN IF IsList(text.doc.d["songs"])
              THEN LET songs == text.doc.d["songs"].l
                   IN  /\ Len(songs) >= 1
                       /\ Len(songs) <= 50
                       /\ \A i \in 1..Len(songs) : IsSong(songs[i])
              ELSE FALSE
         ELSE FALSE
    ELSE FALSE

\* generate_personalized_playlist: the outer except branch
PlaylistFailed(response) ==
    Outcome(NoneV, NoneV,
            <<StError("Kisisellestirilmis liste olusturulurken hata", response.e),
              StCode("traceback")>>)
\* Mutant: a blocked answer is handled as an exception is.
PlaylistBlocked_AsError(response) ==
    Outcome(NoneV, NoneV,
            <<StError("Kisisellestirilmis liste olusturulurken hata", "e"),
              StCode("traceback")>>)
\* generate_personalized_playlist: the branch of an answer without parts
PlaylistBlocked(response) ==
    Outcome(NoneV, NoneV,
            <<StError("Liste olusturma engellendi", response.prompt_feedback)>>)
\* generate_personalized_playlist: the except ValidationError branch
PlaylistInvalid(response) ==
    Outcome(NoneV, NoneV,
            <<StError("Gemini'den gelen JSON yapisi bozuk!", ""), StCode(response.text)>>)

\* generate_personalized_playlist(report_data, playlist_name) with self.model and
\* the service's reaction
generate_personalized_playlist(model, response) ==
    IF ~model THEN Outcome(NoneV, NoneV, <<>>)
    ELSE IF response.t = "raise" THEN PlaylistFailed(response)
    ELSE IF ~response.parts THEN PlaylistBlocked(response)
    ELSE IF ValidPlaylist(response.text)
         THEN Outcome(response.text, UsageMetrics(response.usage_metadata), <<>>)
         ELSE PlaylistInvalid(response)

\* ----------------------------------------------------------------- main
\* The keys of st.session_state a run writes.
RunKeys == {"report_data", "insights_text", "usage_metrics", "playlist_json", "playlist_metrics"}

\* `del st.session_state[key]` for every key of keys that is there
DelKeys(state, keys) == [k \in (DOMAIN state) \ keys |-> state[k]]
\* st.session_state[k] = v
Store(state, k, v) == [key \in (DOMAIN state) \cup {k} |-> IF key = k THEN v ELSE state[key]]

\* The button was pressed and the fetch returned nothing: the session is cleared
\* and the script stops.
StartNoTracks ==
    /\ pc = "main_start"
    /\ tracks = <<>>
    /\ session_state' = DelKeys(session_state, RunKeys)
    /\ pc' = "stopped"
    /\ UNCHANGED <<sanVars, genreVars, statVars, mergeVars, plVars, model_ok,
                   gemini_requests, shown, topVars, pageVars>>

\* The button was pressed and the fetch returned items: the session is cleared
\* and run_analysis_on_tracklist is called.
StartAnalysis ==
    /\ pc = "main_start"
    /\ tracks # <<>>
    /\ session_state' = DelKeys(session_state, RunKeys)
    /\ pc' = "run_start"
    /\ UNCHANGED <<sanVars, genreVars, statVars, mergeVars, plVars, model_ok,
                   gemini_requests, shown, topVars, pageVars>>

\* `if report_data is None: st.stop()`
AnalysisAborted ==
    /\ pc = "aborted"
    /\ pc' = "stopped"
    /\ UNCHANGED <<sanVars, genreVars, statVars, mergeVars, plVars, appVars>>

\* st.session_state['report_data'] = report_data
StoreReport ==
    /\ pc = "returned"
    /\ session_state' = Store(session_state, "report_data", report_data)
    /\ pc' = "insights"
    /\ UNCHANGED <<sanVars, genreVars, statVars, mergeVars, plVars, model_ok,
                   gemini_requests, shown, topVars, pageVars>>

\* The request a generate function sends, when it has a model to send it to.
Requested(kind, response) ==
    IF model_ok
    THEN Append(gemini_requests, [kind |-> kind, response |-> response])
    ELSE gemini_requests

\* The answers to a commentary request.
InsightsResponses == {Raise, Blocked, Answer(TextV("profile"))}

\* Phase 3: generate_insights(report_data); both results are stored.
GenerateInsights ==
    /\ pc = "insights"
    /\ \E response \in InsightsResponses :
        LET out == generate_insights(model_ok, response)
        IN  /\ session_state' = Store(Store(session_state, "insights_text", out.text),
                                      "usage_metrics", out.metrics)
            /\ shown' = shown \o out.shown
            /\ gemini_requests' = Requested("insights", response)
    /\ pc' = "playlist_gen"
    /\ UNCHANGED <<sanVars, genreVars, statVars, mergeVars, plVars, model_ok, topVars, pageVars>>

\* The documents a listing answer can hold.
SongA == DictV([artist |-> StrV(<<"A">>), track |-> StrV(<<"t">>)])
SongB == DictV([artist |-> StrV(<<"B">>), track |-> StrV(<<"u">>)])
SongList(l) == DictV([songs |-> ListV(l)])
\* Documents that hold one to MaxSuggested songs.
ValidDocs == {SongList(l) : l \in SeqsUpTo({SongA, SongB}, MaxSuggested) \ {<<>>}}
\* Texts that are no JSON, and documents of another shape: no songs field, a
\* songs field that is no list or an empty one, a song without track, with an
\* empty artist, with a number as artist, or a string in place of a song.
InvalidDocs ==
    {NotJson,
     EmptyDict,
     ListV(<<SongA>>),
     DictV([songs |-> SongA]),
     SongList(<<>>),
     SongList(<<DictV([artist |-> StrV(<<"A">>)])>>),
     SongList(<<SongA, DictV([artist |-> StrV(<<>>), track |-> StrV(<<"t">>)])>>),
     SongList(<<DictV([artist |-> IntV(1), track |-> StrV(<<"t">>)])>>),
     SongList(<<StrV(<<"t">>)>>)}
PlaylistDocs == ValidDocs \cup InvalidDocs

\* The answers to a listing request.
PlaylistResponses == {Raise, Blocked} \cup {Answer(TextV(doc)) : doc \in PlaylistDocs}

\* Phase 4: generate_personalized_playlist(report_data, playlist_name); both
\* results are stored.
GeneratePlaylist ==
    /\ pc = "playlist_gen"
    /\ \E response \in PlaylistResponses :
        LET out == generate_personalized_playlist(model_ok, response)
        IN  /\ session_state' = Store(Store(session_state, "playlist_json", out.text),
                                      "playlist_metrics", out.metrics)
            /\ shown' = shown \o out.shown
            /\ gemini_requests' = Requested("playlist", response)
    /\ pc' = "display"
    /\ UNCHANGED <<sanVars, genreVars, statVars, mergeVars, plVars, model_ok, topVars, pageVars>>

\* The column names of pd.DataFrame(songs_list): the keys of the songs.
Columns(songs_list) == UNION {DOMAIN songs_list[i].d : i \in 1..Len(songs_list)}

\* The display of the listing reaches the button: the stored text is there and
\* truthy, json.loads and .get('songs', []) do not raise, the song list is not
\* empty and its table takes the two column names.
CreateButtonShown ==
    IF "playlist_json" \in DOMAIN session_state
    THEN LET playlist_json == session_state["playlist_json"]
         IN  IF playlist_json.t = "text"
             THEN IF playlist_json.doc # NotJson
                  THEN IF IsDict(playlist_json.doc)
                       THEN LET songs_list == Get(playlist_json.doc, "songs")
                            IN  IF IsList(songs_list)
                                THEN IF \A i \in 1..Len(songs_list.l) : IsDict(songs_list.l[i])
                                     THEN /\ Len(songs_list.l) > 0
                                          /\ Cardinality(Columns(songs_list.l)) = 2
                                     ELSE FALSE
                                ELSE FALSE
                       ELSE FALSE
                  ELSE FALSE
             ELSE FALSE
    ELSE FALSE

\* The button under the listing is pressed: create_spotify_playlist is called
\* with the stored text.
ClickCreate ==
    /\ pc = "display"
    /\ CreateButtonShown
    /\ num_songs' = Len(session_state["playlist_json"].doc.d["songs"].l)
    /\ pc' = "pl_start"
    /\ UNCHANGED <<sanVars, genreVars, statVars, mergeVars, song_idx, track_uris,
                   songs_found_count, not_found_songs, search_calls, last_search,
                   playlists_created, added_items, appVars>>

\* What a run can receive from the fetch: nothing, only items that are dropped,
\* or tracks.
MainTrackLists ==
    {<<>>,
     <<NoneV>>,
     <<GoodTrack(Absent), BoolV(TRUE)>>,
     <<GoodTrack(IdA)>>,
     <<NoneV, Wrap(BareTrack(IdB))>>,
     <<GoodTrack(IdA), MkTrack(IdB, GoodName, ListV(<<ArtistX, ArtistY>>), GoodAlbum, IntV(0))>>}

\* The session an earlier run left behind.
StaleSession ==
    [k \in RunKeys |->
        CASE k = "report_data" -> [t |-> "report", analyzed_tracks |-> 1]
          [] k = "insights_text" -> TextV("profile")
          [] k = "playlist_json" -> TextV(SongList(<<SongA>>))
          [] OTHER -> UsageMetrics(Usage)]

InitMain ==
    /\ pc = "main_start"
    /\ tracks \in MainTrackLists
    /\ clean_tracks = <<>>
    /\ invalid_count = 0
    /\ patched_count = 0
    /\ resanitized = NoResult
    /\ GenreIdle
    /\ StatIdle
    /\ MergeIdle
    /\ PlaylistIdle
    /\ model_ok \in BOOLEAN
    /\ session_state \in {EmptySession, StaleSession}
    /\ gemini_requests = <<>>
    /\ shown = <<>>
    /\ TopIdle
    /\ PageIdle

\* The suggestion lists of this specification are shorter than the target, so
\* the loop of create_spotify_playlist never breaks early, and the button is
\* only there for a list with songs.
NextMain ==
    \/ StartNoTracks \/ StartAnalysis
    \/ RunSanitize
    \/ GenreSkipArtist \/ GenreCountKnown \/ GenreLookupOk \/ GenreLookupFail \/ GenresReturn
    \/ AnalyzePopularity
    \/ DecadeDistribution
    \/ BuildReport
    \/ AnalysisAborted \/ StoreReport
    \/ GenerateInsights \/ GeneratePlaylist
    \/ ClickCreate
    \/ LoadSongs
    \/ LoopExhausted \/ LoopNextSong
    \/ Phase1Hit \/ Phase1NoMatch \/ Phase2Hit \/ Phase2NoMatch
    \/ NothingResolved \/ CreatePlaylist \/ CreatePlaylistFails
    \/ AddItems \/ AddItemsFails

SpecMain == InitMain /\ [][NextMain]_vars

\* C11: when sanitization leaves no track, run_analysis_on_tracklist returns
\* None without any genre lookup, popularity or decade analysis, and main stores
\* no report_data and sends no request to the generative service.
C11_EmptyRunAborts ==
    (pc \notin {"main_start", "run_start"} /\ tracks # <<>> /\ clean_tracks = <<>>) =>
        /\ pc \in {"aborted", "stopped"}
        /\ report_data = NoneV
        /\ artist_calls = <<>>
        /\ popularity_stats = NoneV
        /\ decade_dist = EmptyCounter
        /\ "report_data" \notin DOMAIN session_state
        /\ gemini_requests = <<>>
        /\ search_calls = 0

\* A run over two items that were both dropped has stopped, with a model at
\* hand that could have been asked.
C11_Witness ==
    /\ pc = "stopped"
    /\ Len(tracks) = 2
    /\ invalid_count = 2
    /\ model_ok

\* What a step of a generate function handed back: the two values stored and
\* the messages the step added to the page.
StepOutcome(text_key, metrics_key) ==
    Outcome(session_state'[text_key], session_state'[metrics_key],
            SubSeq(shown', Len(shown) + 1, Len(shown')))
\* The answer the step's request received.
StepResponse == gemini_requests'[Len(gemini_requests')].response

\* C12: for generate_insights and for generate_personalized_playlist, what a
\* blocked answer produces (the pair returned together with the error put on the
\* page) differs from what an exception produces, and its usage metrics are None.
C12_BlockDistinctFromError ==
    [][/\ (pc = "insights" /\ model_ok /\ StepResponse = Blocked) =>
            /\ StepOutcome("insights_text", "usage_metrics").metrics = NoneV
            /\ StepOutcome("insights_text", "usage_metrics") # generate_insights(TRUE, Raise)
       /\ (pc = "playlist_gen" /\ model_ok /\ StepResponse = Blocked) =>
            /\ StepOutcome("playlist_json", "playlist_metrics").metrics = NoneV
            /\ StepOutcome("playlist_json", "playlist_metrics")
                   # generate_personalized_playlist(TRUE, Raise)]_vars

\* Both requests of a run were blocked.
C12_Witness ==
    /\ pc = "display"
    /\ Len(gemini_requests) = 2
    /\ gemini_requests[1].response = Blocked
    /\ gemini_requests[2].response = Blocked
    /\ Len(shown) = 2

\* The listing request of the run was answered with a text of InvalidDocs.
InvalidListing ==
    \E i \in 1..Len(gemini_requests) :
        /\ gemini_requests[i].kind = "playlist"
        /\ gemini_requests[i].response \in {Answer(TextV(doc)) : doc \in InvalidDocs}

\* C13: when the listing text fails validation, generate_personalized_playlist
\* puts a validation error and the raw text on the page and returns no playlist
\* JSON; the report and the commentary stay stored, and the run issues no
\* catalog search and creates no playlist.
C13_InvalidListingSkipsPlaylist ==
    InvalidListing =>
        /\ session_state["playlist_json"] = NoneV
        /\ session_state["playlist_metrics"] = NoneV
        /\ Len(shown) >= 2
        /\ shown[Len(shown) - 1] = StError("Gemini'den gelen JSON yapisi bozuk!", "")
        /\ shown[Len(shown)] = StCode(gemini_requests[Len(gemini_requests)].response.text)
        /\ session_state["report_data"] = report_data
        /\ "insights_text" \in DOMAIN session_state
        /\ gemini_requests[1].response = Answer(TextV("profile")) =>
               session_state["insights_text"] = TextV("profile")
        /\ pc = "display"
        /\ search_calls = 0
        /\ playlists_created = 0
        /\ added_items = NoneV

\* A run with a commentary whose listing held a song with an empty artist.
C13_Witness ==
    /\ pc = "display"
    /\ InvalidListing
    /\ gemini_requests[1].response = Answer(TextV("profile"))
    /\ CreateButtonShown = FALSE
    /\ gemini_requests[2].response.text.doc
         = SongList(<<SongA, DictV([artist |-> StrV(<<>>), track |-> StrV(<<"t">>)])>>)

\* ------------------------------------------------------------ get_top_tracks
\* The comprehension of get_top_tracks: the items that are dicts with a truthy id.
RECURSIVE TopFilter(_)
TopFilter(items) ==
    IF items = <<>> THEN <<>>
    ELSE LET track == Head(items)
             keep == IF IsDict(track) THEN Truthy(Get(track, "id")) ELSE FALSE
         IN  (IF keep THEN <<track>> ELSE <<>>) \o TopFilter(Tail(items))

\* results.get('items', [])
ItemsOf(results) == IF HasKey(results, "items") THEN results.d["items"].l ELSE <<>>

\* retry_on_error(max_retries=3) wraps get_top_tracks: the wrapper calls the
\* function and returns what it returns; its except branch, which would sleep
\* and call again, is entered only when the function raises. The function body
\* is one try block whose `except Exception` returns [], so no call of it raises
\* and the wrapper returns in its first iteration.

\* The wrapped call in which current_user_top_tracks answers.
TopTracksFetched ==
    /\ pc = "top_start"
    /\ Len(api_calls) < MAX_RETRIES
    /\ api_calls' = Append(api_calls, "ok")
    /\ top_tracks' = ListV(TopFilter(ItemsOf(top_items)))
    /\ pc' = "top_returned"
    /\ UNCHANGED <<sanVars, genreVars, statVars, mergeVars, plVars, mainVars, top_items, pageVars>>

\* The wrapped call in which current_user_top_tracks raises: the function logs
\* the error and returns [].
TopTracksCallRaises ==
    /\ pc = "top_start"
    /\ Len(api_calls) < MAX_RETRIES
    /\ api_calls' = Append(api_calls, "raise")
    /\ top_tracks' = ListV(<<>>)
    /\ pc' = "top_returned"
    /\ UNCHANGED <<sanVars, genreVars, statVars, mergeVars, plVars, mainVars, top_items, pageVars>>

\* The items the catalog can list, and its answers: a mapping with items, or one
\* without.
TopItems ==
    {GoodTrack(IdA), GoodTrack(IdB), BareTrack(IdA), GoodTrack(Absent),
     GoodTrack(StrV(<<>>)), NoneV}
TopResults ==
    {DictV([items |-> ListV(l)]) : l \in SeqsUpTo(TopItems, MaxTopItems)} \cup {EmptyDict}

InitTopTracks ==
    /\ pc = "top_start"
    /\ tracks = <<>>
    /\ clean_tracks = <<>>
    /\ invalid_count = 0
    /\ patched_count = 0
    /\ resanitized = NoResult
    /\ GenreIdle
    /\ StatIdle
    /\ MergeIdle
    /\ PlaylistIdle
    /\ MainIdle
    /\ PageIdle
    /\ top_items \in TopResults
    /\ api_calls = <<>>
    /\ top_tracks = NoneV

NextTopTracks == TopTracksFetched \/ TopTracksCallRaises

SpecTopTracks == InitTopTracks /\ [][NextTopTracks]_vars

\* C14: when current_user_top_tracks raises, get_top_tracks calls it again, and
\* gives the failure up only after MAX_RETRIES calls.
C14_RetriesBeforeGivingUp ==
    (pc = "top_returned" /\ api_calls[Len(api_calls)] = "raise") =>
        Len(api_calls) = MAX_RETRIES

\* ------------------------------------------------------- pagination loops
\* get_all_saved_tracks ("saved"), get_playlist_tracks ("playlist") and
\* get_user_playlists ("playlists") share one loop: `while results:` extends the
\* list with the page, then fetches the next page with sp.next when
\* results.get('next') is set and breaks otherwise.

\* self.user_id, and the owner of somebody else's playlist.
UserId == StrV(<<"m","e">>)
OtherId == StrV(<<"o">>)
MkPlaylist(id, owner, collaborative) ==
    DictV(("id" :> StrV(<<id>>)) @@ ("owner" :> DictV("id" :> owner))
          @@ Field("collaborative", collaborative))
OwnPlaylist == MkPlaylist("1", UserId, BoolV(FALSE))
ForeignPlaylist == MkPlaylist("2", OtherId, BoolV(FALSE))
SharedPlaylist == MkPlaylist("3", OtherId, BoolV(TRUE))

\* The item lists of one page: items that wrap a track, a null track or a track
\* with an empty id for the two track loops, playlists or null for
\* get_user_playlists.
PageContents(kind) ==
    IF kind = "playlists"
    THEN {<<>>, <<OwnPlaylist>>, <<ForeignPlaylist>>, <<SharedPlaylist>>, <<NoneV>>,
          <<ForeignPlaylist, OwnPlaylist>>}
    ELSE {<<>>, <<Wrap(SourceTrack(IdA, 0))>>, <<Wrap(SourceTrack(IdB, 0))>>, <<Wrap(NoneV)>>,
          <<Wrap(SourceTrack(IdA, 0)), Wrap(SourceTrack(IdB, 0))>>,
          <<Wrap(SourceTrack(StrV(<<>>), 0)), Wrap(SourceTrack(IdA, 0))>>}
\* What the provider serves: no page (the first call raises) or up to MaxPages
\* pages; when the last page served announces a next page, fetching it raises
\* or yields nothing.
PagingScripts(kind) ==
    SeqsUpTo({[items |-> its, next |-> nx] : its \in PageContents(kind), nx \in BOOLEAN},
             MaxPages)

\* Mutant: the marker of the page is not looked at.
HasNextPage_Never(page) == FALSE
\* results.get('next')
HasNextPage(page) == page.next

\* The filter of get_user_playlists: `p and (safe_get(p, 'owner', 'id') ==
\* self.user_id or p.get('collaborative'))`
IsUserPlaylist(p) ==
    IF Truthy(p)
    THEN IF safe_get(p, <<"owner", "id">>, NoneV) = UserId THEN TRUE
         ELSE Truthy(Get(p, "collaborative"))
    ELSE FALSE
RECURSIVE UserPlaylists(_)
UserPlaylists(ps) ==
    IF ps = <<>> THEN <<>>
    ELSE (IF IsUserPlaylist(Head(ps)) THEN <<Head(ps)>> ELSE <<>>) \o UserPlaylists(Tail(ps))

\* tracks.extend([...]) / playlists.extend(results.get('items', []))
Extend(kind, acc, items) ==
    IF kind = "playlists" THEN acc \o items ELSE acc \o PageTracks(items)
\* What the function returns after the loop.
AfterLoop(kind, acc) == IF kind = "playlists" THEN UserPlaylists(acc) ELSE acc
\* What the function returns from its except branch: the track loops return the
\* tracks read so far, get_user_playlists returns [].
AfterError(kind, acc) == IF kind = "playlists" THEN <<>> ELSE acc

CurPage == pg_script[pg_idx]

\* The first call answers with the first page.
PagingFirstPage ==
    /\ pc = "pg_start"
    /\ pg_script # <<>>
    /\ pg_idx' = 1
    /\ pc' = "pg_loop"
    /\ UNCHANGED <<sanVars, genreVars, statVars, mergeVars, plVars, mainVars, topVars,
                   pg_kind, pg_script, pg_acc, pg_calls, pg_result>>

\* The first call raises: the except branch.
PagingFirstCallRaises ==
    /\ pc = "pg_start"
    /\ pg_script = <<>>
    /\ pg_result' = ListV(AfterError(pg_kind, pg_acc))
    /\ pc' = "pg_returned"
    /\ UNCHANGED <<sanVars, genreVars, statVars, mergeVars, plVars, mainVars, topVars,
                   pg_kind, pg_script, pg_idx, pg_acc, pg_calls>>

\* One iteration on a page with a marker: the page is added and sp.next
\* answers with the next page.
PagingNextPage ==
    /\ pc = "pg_loop"
    /\ HasNextPage(CurPage)
    /\ pg_idx < Len(pg_script)
    /\ pg_acc' = Extend(pg_kind, pg_acc, CurPage.items)
    /\ pg_calls' = pg_calls + 1
    /\ pg_idx' = pg_idx + 1
    /\ UNCHANGED <<pc, sanVars, genreVars, statVars, mergeVars, plVars, mainVars, topVars,
                   pg_kind, pg_script, pg_result>>

\* One iteration on a page with a marker for which sp.next raises (the except
\* branch) or answers None (`while results` ends the loop).
PagingNextFails ==
    /\ pc = "pg_loop"
    /\ HasNextPage(CurPage)
    /\ pg_idx = Len(pg_script)
    /\ LET read == Extend(pg_kind, pg_acc, CurPage.items)
       IN  /\ pg_acc' = read
           /\ \E outcome \in {"raise", "none"} :
                pg_result' = ListV(IF outcome = "raise" THEN AfterError(pg_kind, read)
                                   ELSE AfterLoop(pg_kind, read))
    /\ pg_calls' = pg_calls + 1
    /\ pc' = "pg_returned"
    /\ UNCHANGED <<sanVars, genreVars, statVars, mergeVars, plVars, mainVars, topVars,
                   pg_kind, pg_script, pg_idx>>

\* One iteration on a page without a marker: the page is added, `break`, and
\* the function returns.
PagingBreak ==
    /\ pc = "pg_loop"
    /\ ~HasNextPage(CurPage)
    /\ LET read == Extend(pg_kind, pg_acc, CurPage.items)
       IN  /\ pg_acc' = read
           /\ pg_result' = ListV(AfterLoop(pg_kind, read))
    /\ pc' = "pg_returned"
    /\ UNCHANGED <<sanVars, genreVars, statVars, mergeVars, plVars, mainVars, topVars,
                   pg_kind, pg_script, pg_idx, pg_calls>>

InitPaging ==
    /\ pc = "pg_start"
    /\ tracks = <<>>
    /\ clean_tracks = <<>>
    /\ invalid_count = 0
    /\ patched_count = 0
    /\ resanitized = NoResult
    /\ GenreIdle
    /\ StatIdle
    /\ MergeIdle
    /\ PlaylistIdle
    /\ MainIdle
    /\ TopIdle
    /\ pg_kind \in {"saved", "playlist", "playlists"}
    /\ pg_script \in PagingScripts(pg_kind)
    /\ pg_idx = 0
    /\ pg_acc = <<>>
    /\ pg_calls = 0
    /\ pg_result = NoneV

NextPaging ==
    \/ PagingFirstPage \/ PagingFirstCallRaises
    \/ PagingNextPage \/ PagingNextFails \/ PagingBreak

\* The calls are blocking calls on the one control flow: a step that can be
\* taken is taken.
SpecPaging == InitPaging /\ [][NextPaging]_vars /\ WF_vars(NextPaging)

\* The items of the pages 1..n in page order.
RECURSIVE ItemsUpTo(_)
ItemsUpTo(n) == IF n = 0 THEN <<>> ELSE ItemsUpTo(n - 1) \o pg_script[n].items
\* Of a list of items, those that have a mapping-valued track with a non-empty
\* id, and the tracks they carry.
RECURSIVE TrackedItems(_)
TrackedItems(items) ==
    IF items = <<>> THEN <<>>
    ELSE (IF WrapsMapping(Head(items)) /\ HasNonEmptyId(CandidateOf(Head(items)))
          THEN <<Head(items)>> ELSE <<>>) \o TrackedItems(Tail(items))
TracksOf(items) == [i \in 1..Len(items) |-> items[i].d["track"]]
\* Of a list of playlists, those of the user: owned or collaborative.
RECURSIVE OwnOrShared(_)
OwnOrShared(ps) ==
    IF ps = <<>> THEN <<>>
    ELSE (IF Head(ps) \in {OwnPlaylist, SharedPlaylist} THEN <<Head(ps)>> ELSE <<>>)
         \o OwnOrShared(Tail(ps))
\* The first page without a next-page marker, when the provider serves one and
\* every page before it announces its successor.
EndsAt(n) ==
    /\ n \in 1..Len(pg_script)
    /\ ~pg_script[n].next
    /\ \A k \in 1..(n - 1) : pg_script[k].next

\* C30 as stated: when the provider signals the end at some page, each of the
\* three loops returns, in page order, the tracks of the items up to that page
\* that have a mapping-valued track with a non-empty id.
C30_AllLoopsAccumulateTracks ==
    \A n \in 1..Len(pg_script) :
        (pc = "pg_returned" /\ EndsAt(n)) =>
            pg_result = ListV(TracksOf(TrackedItems(ItemsUpTo(n))))

\* C30, amended: in each of the three loops sp.next is called exactly on a page
\* that carries a marker, and a page without one ends the loop in that step;
\* when the provider signals the end at page n the function returns after n - 1
\* sp.next calls, and returns in page order the tracks of the items of pages
\* 1..n that have a mapping-valued track with a non-empty id
\* (get_all_saved_tracks, get_playlist_tracks), respectively the playlists of
\* pages 1..n that the user owns or that are collaborative
\* (get_user_playlists); and every run of a loop returns.
C30_PagingLoops ==
    /\ [][pc = "pg_loop" =>
            /\ pg_calls' = (IF pg_script[pg_idx].next THEN pg_calls + 1 ELSE pg_calls)
            /\ ~pg_script[pg_idx].next => pc' = "pg_returned"
            /\ pc' = "pg_loop" => pg_idx' = pg_idx + 1
         ]_vars
    /\ [](\A n \in 1..Len(pg_script) :
            (pc = "pg_returned" /\ EndsAt(n)) =>
                /\ pg_idx = n
                /\ pg_calls = n - 1
                /\ pg_result = ListV(IF pg_kind = "playlists"
                                     THEN OwnOrShared(ItemsUpTo(n))
                                     ELSE TracksOf(TrackedItems(ItemsUpTo(n)))))
    /\ <>(pc = "pg_returned")

\* get_playlist_tracks returned after three pages: the tracks of page 1 and of
\* page 3 in that order, page 2 holding only a null track.
C30_Witness ==
    /\ pc = "pg_returned"
    /\ pg_kind = "playlist"
    /\ pg_script = <<[items |-> <<Wrap(SourceTrack(IdB, 0))>>, next |-> TRUE],
                     [items |-> <<Wrap(NoneV)>>, next |-> TRUE],
                     [items |-> <<Wrap(SourceTrack(StrV(<<>>), 0)), Wrap(SourceTrack(IdA, 0))>>,
                      next |-> FALSE]>>
    /\ pg_calls = 2
    /\ pg_result = ListV(<<SourceTrack(IdB, 0), SourceTrack(IdA, 0)>>)

====
